---------------------------- MODULE Spec2Model ----------------------------
(***************************************************************************)
(* Background service worker of the LLM Search Behavior Tracker extension  *)
(* (src/chrome-extension/scripts/content.js, lines 711-1255): the session  *)
(* state held in memory, chrome.storage.local, the periodic upload alarm,  *)
(* the asynchronous handlers suspended at their awaits, and the upload     *)
(* sink.                                                                   *)
(*                                                                         *)
(* Every handler runs to its next await in one step.  A chrome.storage     *)
(* call takes effect when it is issued (the browser serves the calls of    *)
(* one worker in the order they were made); the code after the await is a  *)
(* later step.  The worker process can be killed between any two steps:    *)
(* memory and the suspended handlers are lost, storage and the alarm stay. *)
(*                                                                         *)
(* Not modelled: the statistics keys totalEvents / lastUploadTimestamp     *)
(* written after a successful upload (content.js 1108-1113), the unused    *)
(* sessionState.uploadQueue (written by the earlier worker of part_005     *)
(* only, modelled further down), console logging.                          *)
(***************************************************************************)
EXTENDS Naturals, Integers, Sequences, FiniteSets, Bags, TLC

(* ------------------------------ bounds -------------------------------- *)
\* inputs delivered in a run: commands, page events, tab callbacks, settings
\* changes and restarts of the worker
MaxInputs == 3
\* flushes started by the periodic alarm in a run
MaxUploads == 2
\* handlers suspended at an await at the same time
MaxTasks == 2
\* serialized size of the buffer that triggers a flush, counted in events
\* (CONFIG.maxBufferSize is 10MB of JSON; one event is one unit here)
MaxBufferEvents == 2
\* times a page sets up its tracking within one page load: the calls of
\* startCapturing that take effect and the set-ups after a navigation
MaxCaptures == 2

(* ------------------------- program constants -------------------------- *)
retryAttempts == 3
\* maxAttempts of setupQueryInputTracking
maxAttempts == 5
\* the wait of the throttle of the scroll handler, in ms
wait == 1000

NoPid == "null"
NoData == "no-data"
Pids == {"P001", ""}
StartData == Pids \cup {NoData}

\* hostnames as sequences of labels
Hosts == {<<"shop", "com">>, <<"www", "shop", "com">>}
DomainLists == {{}, {<<"shop", "com">>}}

\* platform classes of a page ("" when the detector finds no platform), and
\* the event kinds a page's content script sends in the worker's runs
Classes == {"", "ai", "ecommerce"}
Pages == [host : Hosts, class : Classes]
PageKinds == {"click", "ai_query_submitted"}

\* every type the content script passes to sendEvent
ContentKinds ==
  {"page_load", "page_unload", "click", "input", "form_submit",
   "visibility_change", "scroll_milestone", "ai_query_submitted",
   "ai_result_click", "product_click", "conversion_action"}

\* CAPTURE_CONFIG.scrollMilestones, and the scroll percentages a page is
\* seen at: the top and the bottom
scrollMilestones == <<25, 50, 75, 100>>
ScrollStops == {0, 100}

\* the clock: Date.now() when the page is loaded, the step by which the
\* model lets time pass, and the time at which the model stops the clock
Epoch == 5 * wait
Tick == wait \div 2
MaxClock == Epoch + 3 * wait

VARIABLES
  sessionState,      \* the worker's in-memory sessionState object
  uploadInProgress,  \* Map uploadId -> batch, as a set of batch records
  stored,            \* chrome.storage.local
  alarm,             \* PERIODIC_UPLOAD_ALARM exists
  tasks,             \* handlers suspended at an await (a bag)
  ids,               \* how many event / session / upload ids were generated
  inputs,            \* inputs delivered so far
  out,               \* the listener that ran in the last step, its message
                     \* data and the reply it sent
  acked,             \* ids of the events in a batch the sink answered with 2xx
  restoreCount,      \* calls of restoreSessionState in this process
  killedMidFlush,    \* events of snapshots that were in flight at a restart
  content,           \* the content script of one loaded page: its variables,
                     \* the page's hostname, platform class and scroll position
  sent,              \* the messages that script passed to
                     \* chrome.runtime.sendMessage in the last step
  detector,          \* a PlatformDetector: its config, and the page it runs
                     \* on (location, document.referrer, whether the DOM holds
                     \* an element of the AI-overview selectors)
  returned,          \* the last call of a function of the content script
                     \* or of the detector, its arguments and what it returned
  emitted,           \* scroll_milestone messages sent so far, per milestone:
                     \* since the page loaded and since the last
                     \* startCapturing; and the startCapturing calls so far
  eventSize          \* the JSON length of one event of the run, in units of
                     \* which MaxBufferEvents make CONFIG.maxBufferSize

vars == <<sessionState, uploadInProgress, stored, alarm, tasks, ids, inputs, out,
          acked, restoreCount, killedMidFlush, content, sent, emitted,
          detector, returned, eventSize>>

(* ------------------------------ state --------------------------------- *)
InitialSessionState ==
  [isRecording |-> FALSE, sessionId |-> 0, participantId |-> NoPid,
   startTime |-> 0, eventBuffer |-> <<>>, excludedDomains |-> {},
   restored |-> FALSE, totalSessionEvents |-> 0, uploadQueue |-> <<>>]

\* chrome.storage.local after onInstalled; keys never written read as
\* undefined, which restoreSessionState turns into 0 / [] with "||"
InstalledStorage ==
  [isRecording |-> FALSE, participantId |-> NoPid, currentSessionId |-> 0,
   recordingStartTime |-> 0, eventBuffer |-> <<>>, totalSessionEvents |-> 0,
   pendingUploads |-> {}, excludedDomains |-> {}]

\* the page an input comes from: its hostname and its platform class
NoPage == [host |-> <<>>, class |-> ""]

NoTask ==
  [k |-> "", pc |-> "", id |-> 0, events |-> <<>>, attempt |-> 0,
   caller |-> "", snap |-> InstalledStorage, mtype |-> "", data |-> "",
   page |-> NoPage]

\* an input element: its type and autocomplete attributes, and the three
\* attributes isSearchQueryInput reads
Field(type, autocomplete, id, name, placeholder) ==
  [type |-> type, autocomplete |-> autocomplete, id |-> id, name |-> name,
   placeholder |-> placeholder]

NoField == Field("", "", <<>>, <<>>, <<>>)

\* a DOM event: the element it is fired at, the key and the modifier of a
\* keydown, the text the element holds, and the element as an input field
DomEvent(event, target) ==
  [event |-> event, target |-> target, key |-> "", shiftKey |-> FALSE,
   text |-> <<>>, field |-> NoField]

NoEvent == DomEvent("", "")

\* what a step did: the operation, its argument, the reply, the page and the
\* DOM event it was about
NoOut ==
  [op |-> "", data |-> "", reply |-> "", page |-> NoPage, event |-> NoEvent]

\* the whole state as one record, so that a step can compose handler code
Cur ==
  [ss |-> sessionState, up |-> uploadInProgress, st |-> stored,
   alarm |-> alarm, tasks |-> tasks, ids |-> ids, out |-> NoOut,
   acked |-> acked, rc |-> restoreCount, cs |-> content, sent |-> <<>>,
   em |-> emitted, det |-> detector, res |-> returned, size |-> eventSize]

Commit(W) ==
  /\ sessionState' = W.ss
  /\ uploadInProgress' = W.up
  /\ stored' = W.st
  /\ alarm' = W.alarm
  /\ tasks' = W.tasks
  /\ ids' = W.ids
  /\ out' = W.out
  /\ acked' = W.acked
  /\ restoreCount' = W.rc
  /\ content' = W.cs
  /\ sent' = W.sent
  /\ emitted' = W.em
  /\ detector' = W.det
  /\ returned' = W.res
  /\ eventSize' = W.size

AddTask(W, t) == [W EXCEPT !.tasks = @ (+) SetToBag({t})]
DropTask(W, t) == [W EXCEPT !.tasks = @ (-) SetToBag({t})]
Reply(W, r) == [W EXCEPT !.out.reply = r]
Op(W, name) == [W EXCEPT !.out.op = name]
From(W, page) == [W EXCEPT !.out.page = page]

\* an event object; its id stands for the object's identity
Event(type, W, total) ==
  [id |-> W.ids.event + 1, type |-> type, sessionId |-> W.ss.sessionId,
   participantId |-> W.ss.participantId, totalEvents |-> total]

\* a push that puts the event in front
Unshift(W, e) ==
  [W EXCEPT !.ss.eventBuffer = <<e>> \o @, !.ids.event = @ + 1]

Push(W, e) ==
  [W EXCEPT !.ss.eventBuffer = Append(@, e), !.ids.event = @ + 1]

\* generateUploadId / the session id: a fresh value
NewUpload(W) == [W EXCEPT !.ids.upload = @ + 1]
NewSession(W) == [W EXCEPT !.ids.session = @ + 1]

SeqToSet(s) == {s[i] : i \in 1..Len(s)}
FilterOut(s, drop) == SelectSeq(s, LAMBDA e : e \notin drop)

(* --------------------------- schedulePeriodicUpload ------------------- *)
schedulePeriodicUpload(W) == [W EXCEPT !.alarm = TRUE]

(* ---------------------------- uploadBufferedData ---------------------- *)
\* what the caller does once uploadBufferedData has returned
stopAfterUpload(W) ==
  AddTask(
    [W EXCEPT !.ss.isRecording = FALSE, !.ss.sessionId = 0,
              !.ss.startTime = 0,
              !.st.isRecording = FALSE, !.st.currentSessionId = 0,
              !.st.recordingStartTime = 0],
    [NoTask EXCEPT !.k = "stop"])

uploadReturn(W, caller, result) ==
  CASE caller = "UPLOAD_NOW" -> Reply(W, result)
    [] caller = "STOP_RECORDING" -> stopAfterUpload(W)
    [] OTHER -> W

\* up to the first await: empty check, snapshot, pending entry, persist it
uploadBufferedData(W, caller) ==
  IF Len(W.ss.eventBuffer) = 0
  THEN uploadReturn(W, caller, "No data to upload")
  ELSE LET id == W.ids.upload + 1
           batch == [uploadId |-> id, events |-> W.ss.eventBuffer,
                     sessionId |-> W.ss.sessionId,
                     participantId |-> W.ss.participantId]
           up2 == W.up \cup {batch}
       IN AddTask(
            [NewUpload(W) EXCEPT !.up = up2, !.st.pendingUploads = up2],
            [NoTask EXCEPT !.k = "flush", !.pc = "saved", !.id = id,
                           !.events = W.ss.eventBuffer, !.caller = caller])


(* --------------------------- handleStartRecording --------------------- *)
\* up to the await of chrome.storage.local.set; data = NoData is a message
\* without a data object: data.participantId throws after sessionId was set
handleStartRecording(W0, data) ==
  LET W == NewSession(W0)
      id == W.ids.session
  IN
  IF data = NoData
  THEN Reply([W EXCEPT !.ss.sessionId = id], "start failed")
  ELSE AddTask(
         [W EXCEPT !.ss.sessionId = id, !.ss.participantId = data,
                   !.ss.startTime = id, !.ss.isRecording = TRUE,
                   !.ss.eventBuffer = <<>>, !.ss.totalSessionEvents = 0,
                   !.st.isRecording = TRUE, !.st.participantId = data,
                   !.st.currentSessionId = id, !.st.recordingStartTime = id,
                   !.st.totalSessionEvents = 0],
         [NoTask EXCEPT !.k = "start"])

\* after the await: session_start is pushed, the alarm armed, the reply sent
startContinue(W) ==
  Reply(schedulePeriodicUpload(Push(W, Event("session_start", W, 0))),
        "start ok")

(* --------------------------- handleStopRecording ---------------------- *)
\* a stop that starts the final flush and does not wait for it
StopWithoutWaiting(W) ==
  stopAfterUpload(
    uploadBufferedData(
      Push(W, [Event("session_end", W, W.ss.totalSessionEvents + 1)
                 EXCEPT !.participantId = NoPid]),
      "final"))

\* the session_end object has no participantId field
stopAndUpload(W) ==
  uploadBufferedData(
    Push(W, [Event("session_end", W, W.ss.totalSessionEvents + 1)
               EXCEPT !.participantId = NoPid]),
    "STOP_RECORDING")

NoGuardStop(W) == stopAndUpload(W)

handleStopRecording(W) ==
  IF ~W.ss.isRecording
  THEN Reply(W, "No active recording")
  ELSE stopAndUpload(W)

\* after the await of the last storage.set: the alarm is cleared
stopContinue(W) == Reply([W EXCEPT !.alarm = FALSE], "stop ok")

(* --------------------------- handleEventCaptured ---------------------- *)
enqueue(W, type) ==
  LET W1 == Push(W, Event(type, W, 0))
      W2 == [W1 EXCEPT !.ss.totalSessionEvents = @ + 1]
  IN AddTask(
       [W2 EXCEPT !.st.eventBuffer = W2.ss.eventBuffer,
                  !.st.totalSessionEvents = W2.ss.totalSessionEvents],
       [NoTask EXCEPT !.k = "event"])

NoGuardEvent(W, type) == enqueue(W, type)

handleEventCaptured(W, type) ==
  IF ~W.ss.isRecording THEN W ELSE enqueue(W, type)

\* after the await: the size check
eventContinue(W) ==
  IF Len(W.ss.eventBuffer) * W.size >= MaxBufferEvents
  THEN uploadBufferedData(W, "size")
  ELSE W

(* ------------------------------ isUrlExcluded ------------------------- *)
\* hostname.endsWith('.' + domain), on label sequences
IsSubdomain(host, domain) ==
  /\ Len(host) > Len(domain)
  /\ SubSeq(host, Len(host) - Len(domain) + 1, Len(host)) = domain

isUrlExcluded(W, host) ==
  /\ W.ss.excludedDomains # {}
  /\ \E d \in W.ss.excludedDomains : host = d \/ IsSubdomain(host, d)

(* --------------------------- restoreSessionState ---------------------- *)
\* the code after the await of chrome.storage.local.get; snap is what the
\* get returned
restoreSessionState(W, snap) ==
  IF snap.isRecording /\ snap.recordingStartTime # 0
  THEN schedulePeriodicUpload(
         [W EXCEPT !.ss.isRecording = TRUE,
                   !.ss.startTime = snap.recordingStartTime,
                   !.ss.sessionId = snap.currentSessionId,
                   !.ss.participantId = snap.participantId,
                   !.ss.eventBuffer = snap.eventBuffer,
                   !.ss.totalSessionEvents = snap.totalSessionEvents,
                   !.ss.excludedDomains = snap.excludedDomains,
                   !.up = @ \cup snap.pendingUploads])
  ELSE W

(* ------------------------------ handleMessage ------------------------- *)
forceReset(W) ==
  AddTask(
    [W EXCEPT !.ss.isRecording = FALSE, !.ss.sessionId = 0,
              !.ss.participantId = NoPid, !.ss.startTime = 0,
              !.ss.eventBuffer = <<>>, !.alarm = FALSE,
              !.st.isRecording = FALSE, !.st.currentSessionId = 0,
              !.st.recordingStartTime = 0],
    [NoTask EXCEPT !.k = "reset"])

handleMessage(W, mtype, data) ==
  LET V == [W EXCEPT !.out.op = mtype, !.out.data = data] IN
  CASE mtype = "START_RECORDING" -> handleStartRecording(V, data)
    [] mtype = "STOP_RECORDING" -> handleStopRecording(V)
    [] mtype = "EVENT_CAPTURED" ->
         Reply(handleEventCaptured(V, data), "success")
    [] mtype = "GET_STATUS" -> Reply(V, "status")
    [] mtype = "UPLOAD_NOW" -> uploadBufferedData(V, "UPLOAD_NOW")
    [] mtype = "FORCE_RESET" -> forceReset(V)
    [] OTHER -> Reply(V, "Unknown message type")

alarmBody(W) ==
  IF W.ss.isRecording /\ Len(W.ss.eventBuffer) > 0
  THEN uploadBufferedData(Op(W, "alarm"), "alarm")
  ELSE Op(W, "alarm")

\* chrome.runtime.onMessage / chrome.alarms.onAlarm: restore first when this
\* process has not restored yet, then act
dispatch(W, mtype, data) ==
  IF mtype = "alarm" THEN alarmBody(W)
  ELSE handleMessage(W, mtype, data)

onInput(W, mtype, data) ==
  IF ~W.ss.restored
  THEN AddTask([W EXCEPT !.rc = @ + 1],
               [NoTask EXCEPT !.k = "restore", !.snap = W.st,
                              !.mtype = mtype, !.data = data,
                              !.page = W.out.page])
  ELSE dispatch(W, mtype, data)

restoreThen(W, t) ==
  dispatch([restoreSessionState(W, t.snap) EXCEPT !.ss.restored = TRUE,
                                                  !.out.page = t.page],
           t.mtype, t.data)

(* ------------------- uploadBufferedData after its awaits -------------- *)
\* after savePendingUploads: the payload is built and the first POST leaves
flushSend(W, t) ==
  AddTask(DropTask(W, t), [t EXCEPT !.pc = "fetch", !.attempt = 1])

\* the sink answers the outstanding POST with 2xx
sinkAccept(W, t) ==
  AddTask([DropTask(W, t) EXCEPT
             !.acked = @ \cup {e.id : e \in SeqToSet(t.events)}],
          [t EXCEPT !.pc = "ok"])

\* a failure handling that tries again whatever the number of attempts made
RetryWithoutBound(W, t) ==
  AddTask(DropTask(W, t), [t EXCEPT !.attempt = @ + 1])

\* a failure handling that gives the batch up: it leaves the pending map and
\* its events leave the buffer
DropOnExhaustion(W, t) ==
  IF t.attempt < retryAttempts
  THEN AddTask(DropTask(W, t), [t EXCEPT !.attempt = @ + 1])
  ELSE LET up2 == {b \in W.up : b.uploadId # t.id}
       IN uploadReturn(
            [DropTask(W, t) EXCEPT
               !.ss.eventBuffer = FilterOut(@, SeqToSet(t.events)),
               !.up = up2, !.st.pendingUploads = up2],
            t.caller, "Events retained in buffer for retry")

\* the outstanding POST fails (network error or non-2xx): after retryDelay
\* the next attempt leaves, or the retries are exhausted
respFail(W, t) ==
  IF t.attempt < retryAttempts
  THEN AddTask(DropTask(W, t), [t EXCEPT !.attempt = @ + 1])
  ELSE uploadReturn(DropTask(W, t), t.caller,
                    "Events retained in buffer for retry")

\* response.ok: the uploaded events leave the buffer, the batch leaves the
\* pending map, the pending map is persisted
respOk(W, t) ==
  LET up2 == {b \in W.up : b.uploadId # t.id}
  IN AddTask(
       [DropTask(W, t) EXCEPT
          !.ss.eventBuffer = FilterOut(@, SeqToSet(t.events)),
          !.up = up2, !.st.pendingUploads = up2],
       [t EXCEPT !.pc = "persist"])

\* the buffer is persisted, uploadBufferedData returns success
flushPersist(W, t) ==
  uploadReturn([DropTask(W, t) EXCEPT !.st.eventBuffer = W.ss.eventBuffer],
               t.caller, "uploaded")

(* --------------------------- PlatformDetector ------------------------- *)
\* strings are sequences of tokens (labels of a hostname, segments of a
\* path, letters of a word); s.includes(pat)
Includes(s, pat) ==
  \E i \in 1..(Len(s) - Len(pat) + 1) : SubSeq(s, i, i + Len(pat) - 1) = pat

\* a URL: href is the hostname followed by the path; the empty string is the
\* URL without hostname and path
Url(host, path) == [host |-> host, path |-> path]
NoUrl == Url(<<>>, <<>>)
Href(u) == u.host \o u.path

\* platform definitions of config/platforms.json; the file itself is data
\* outside the code, the names are those the test guide expects
Def(platform, domains, urlPatterns) ==
  [platform |-> platform, domains |-> domains, urlPatterns |-> urlPatterns]
chatgpt == Def("chatgpt", {<<"openai", "com">>}, {})
google_ai == Def("google_ai", {<<"google", "com">>}, {})
perplexity == Def("perplexity", {<<"perplexity", "ai">>}, {<<"search">>})
amazon == Def("amazon", {<<"amazon", "com">>}, {})
google_shopping ==
  Def("google_shopping", {<<"shopping", "google", "com">>}, {})
generic_ecommerce == Def("generic_ecommerce", {}, {<<"cart">>})

\* catalogs: Object.entries of ai_platforms and of ecommerce_platforms, in
\* the order of the file
Catalogs ==
  [ai_platforms : {<<chatgpt, google_ai, perplexity>>,
                   <<perplexity, google_ai, chatgpt>>,
                   <<google_ai>>, <<>>},
   ecommerce_platforms : {<<amazon, google_shopping, generic_ecommerce>>,
                          <<generic_ecommerce, amazon>>, <<>>}]

Urls ==
  {Url(<<"chat", "openai", "com">>, <<>>),
   Url(<<"www", "google", "com">>, <<"search">>),
   Url(<<"shopping", "google", "com">>, <<"product">>),
   Url(<<"www", "amazon", "com">>, <<"dp">>),
   Url(<<"shop", "com">>, <<"cart">>),
   Url(<<"news", "org">>, <<>>),
   Url(<<>>, <<"cart">>),
   NoUrl}

NoPlatform == [platform |-> "", type |-> ""]

\* a matcher that looks at the hostname only
matchesDomainOnly(hostname, url, config) ==
  \E domain \in config.domains : Includes(hostname, domain)

matchesPlatform(hostname, url, config) ==
  \/ \E domain \in config.domains : Includes(hostname, domain)
  \/ \E pattern \in config.urlPatterns : Includes(url, pattern)

\* the loop over the AI platforms from the i-th entry on; aiOverview tells
\* whether findElement(config.selectors.aiOverview) finds an element in the
\* document the detector runs in
RECURSIVE detectAI(_, _, _, _, _)
detectAI(platforms, i, url, hostname, aiOverview) ==
  IF i > Len(platforms) THEN NoPlatform
  ELSE IF /\ matchesPlatform(hostname, url, platforms[i])
          /\ platforms[i].platform = "google_ai" => aiOverview
       THEN [platform |-> platforms[i].platform, type |-> "ai"]
       ELSE detectAI(platforms, i + 1, url, hostname, aiOverview)

RECURSIVE detectEcommerce(_, _, _, _)
detectEcommerce(platforms, i, url, hostname) ==
  IF i > Len(platforms) THEN NoPlatform
  ELSE IF matchesPlatform(hostname, url, platforms[i])
       THEN [platform |-> platforms[i].platform, type |-> "ecommerce"]
       ELSE detectEcommerce(platforms, i + 1, url, hostname)

detect(config, url, hostname, aiOverview) ==
  IF url = <<>> \/ hostname = <<>>
  THEN NoPlatform
  ELSE LET ai == detectAI(config.ai_platforms, 1, url, hostname, aiOverview)
       IN IF ai # NoPlatform
          THEN ai
          ELSE detectEcommerce(config.ecommerce_platforms, 1, url, hostname)

isFromAI(config, referrer, aiOverview) ==
  IF Href(referrer) = <<>>
  THEN FALSE
  ELSE detect(config, Href(referrer), referrer.host, aiOverview).type = "ai"

\* both detect calls run findElement in the document of the current page
isAIToEcommerce(config, referrer, currentUrl, aiOverview) ==
  IF Href(referrer) = <<>> \/ Href(currentUrl) = <<>>
  THEN FALSE
  ELSE /\ detect(config, Href(referrer), referrer.host,
                 aiOverview).type = "ai"
       /\ detect(config, Href(currentUrl), currentUrl.host,
                 aiOverview).type = "ecommerce"

(* ------------------------------ findElement --------------------------- *)
\* selectors as sequences of characters: a and b are valid, the third makes
\* querySelector throw
Selectors == {<<"a">>, <<"b">>, <<"!">>}

\* the elements of a document, and the selector each of them matches
DomElements == {"A", "B"}
MatchedBy(el) == IF el = "A" THEN <<"a">> ELSE <<"b">>
Documents == SUBSET DomElements

\* an argument of findElement: an array of selectors, or a value that is
\* not an array
SelectorLists ==
  {<<>>} \cup {<<x>> : x \in Selectors}
         \cup {<<x, y>> : x \in Selectors, y \in Selectors}
Arguments ==
  {[isArray |-> FALSE, selectors |-> <<>>]} \cup
  {[isArray |-> TRUE, selectors |-> l] : l \in SelectorLists}

\* document.querySelector: the element ("" for null), or throws
querySelector(document, selector) ==
  IF selector \notin {<<"a">>, <<"b">>}
  THEN [throws |-> TRUE, el |-> ""]
  ELSE [throws |-> FALSE,
        el |-> IF \E e \in document : MatchedBy(e) = selector
               THEN CHOOSE e \in document : MatchedBy(e) = selector
               ELSE ""]

\* selectors.join('|')
RECURSIVE join(_, _)
join(selectors, i) ==
  IF i > Len(selectors) THEN <<>>
  ELSE IF i = Len(selectors) THEN selectors[i]
  ELSE selectors[i] \o <<"|">> \o join(selectors, i + 1)

\* the selector cache: a set of entries, one for a key at most
NoCache == {}
has(cache, key) == \E c \in cache : c.key = key
get(cache, key) == (CHOOSE c \in cache : c.key = key).selector
delete(cache, key) == {c \in cache : c.key # key}
set(cache, key, selector) ==
  delete(cache, key) \cup {[key |-> key, selector |-> selector]}

\* the loop over the selectors from the i-th on: the element found and the
\* cache after it
RECURSIVE trySelectors(_, _, _, _)
trySelectors(cache, document, selectors, i) ==
  IF i > Len(selectors)
  THEN [el |-> "", cache |-> cache]
  ELSE LET q == querySelector(document, selectors[i])
       IN IF ~q.throws /\ q.el # ""
          THEN [el |-> q.el, cache |-> set(cache, join(selectors, 1),
                                           selectors[i])]
          ELSE trySelectors(cache, document, selectors, i + 1)

findElement(cache, document, arg) ==
  IF ~arg.isArray
  THEN [el |-> "", cache |-> cache]
  ELSE LET cacheKey == join(arg.selectors, 1)
       IN IF has(cache, cacheKey)
          THEN LET q == querySelector(document, get(cache, cacheKey))
               IN IF q.throws
                  THEN trySelectors(delete(cache, cacheKey), document,
                                    arg.selectors, 1)
                  ELSE IF q.el # ""
                  THEN [el |-> q.el, cache |-> cache]
                  ELSE trySelectors(cache, document, arg.selectors, 1)
          ELSE trySelectors(cache, document, arg.selectors, 1)

NoDetector ==
  [config |-> [ai_platforms |-> <<>>, ecommerce_platforms |-> <<>>],
   location |-> NoUrl, referrer |-> NoUrl, aiOverview |-> FALSE,
   selectorCache |-> NoCache, document |-> {}]

NoResult ==
  [fn |-> "", url |-> NoUrl, platform |-> NoPlatform, flag |-> FALSE,
   arg |-> [isArray |-> FALSE, selectors |-> <<>>], el |-> ""]

(* ------------------- content script: event filtering ----------------- *)
EVENT_RULES ==
  [general |-> {"page_load", "navigation", "click", "input", "form_submit",
                "scroll_milestone", "page_unload", "visibility_change"},
   ai |-> {"page_load", "ai_query_submitted", "ai_result_click",
           "navigation", "click", "input", "form_submit", "scroll_milestone",
           "page_unload", "visibility_change"},
   ecommerce |-> {"page_load", "product_click", "conversion_action", "click",
                  "input", "form_submit", "scroll_milestone", "page_unload",
                  "navigation", "visibility_change"}]

\* currentPlatform?.type || 'general'; the detector yields ai, ecommerce or
\* no platform ("")
PlatformType(class) == IF class = "" THEN "general" ELSE class

\* EVENT_RULES[platformType] || EVENT_RULES.general
AllowedEvents(class) ==
  IF PlatformType(class) \in DOMAIN EVENT_RULES
  THEN EVENT_RULES[PlatformType(class)]
  ELSE EVENT_RULES.general

isExcludedDomain(excluded, hostname) ==
  \E d \in excluded : hostname = d \/ IsSubdomain(hostname, d)

\* a filter that lets every event through
CaptureEverything(excluded, page, eventType) == TRUE

shouldCaptureEvent(excluded, page, eventType) ==
  IF isExcludedDomain(excluded, page.host)
  THEN FALSE
  ELSE eventType \in AllowedEvents(page.class)

(* --------------------- content script: one page ----------------------- *)
\* the elements the platform's selectors may find on the page
Elements == {"queryInput", "submitButton", "responseContainer"}

\* the script after init() and the retry at DOM ready, on a page of the
\* given hostname and class, with the excludedDomains that
\* loadExcludedDomains read; attached is the page's side of addEventListener
LoadedScript(host, class, excluded) ==
  [isRecording |-> FALSE, excludedDomains |-> excluded, host |-> host,
   class |-> class, scrollMilestonesReached |-> {}, scroll |-> 0,
   valid |-> TRUE, platformDetector |-> TRUE, dom |-> Elements,
   attached |-> EmptyBag, eventListeners |-> EmptyBag, timers |-> EmptyBag,
   retried |-> TRUE, resetups |-> 0, hasAIReferrer |-> FALSE,
   now |-> Epoch, throttles |-> <<>>]

\* lastCheck: when the throttled milestone check ran last (0: never);
\* minGap: the least time between two of its runs, if less than wait;
\* unchecked: the time of the first scroll event after its last run
\* fromAI: whether the page on which the capture session started, or a page
\* loaded during it, was reached from an AI platform; lookups: how many
\* times setupQueryInputTracking looked for the query input on this page
NoneEmitted ==
  [page |-> [m \in SeqToSet(scrollMilestones) |-> 0],
   session |-> [m \in SeqToSet(scrollMilestones) |-> 0],
   captures |-> 0, fromAI |-> FALSE, lookups |-> 0,
   lastCheck |-> 0, minGap |-> wait, unchecked |-> 0]

CountMilestone(em, eventData) ==
  IF eventData.type = "scroll_milestone"
  THEN [em EXCEPT !.page[eventData.milestone] = @ + 1,
                  !.session[eventData.milestone] = @ + 1]
  ELSE em

\* a sendEvent that skips the filter
sendUnfiltered(W, eventData) ==
  IF ~W.cs.valid
  THEN W
  ELSE [W EXCEPT !.sent = Append(@, eventData),
                 !.em = CountMilestone(@, eventData)]

\* sendEvent: the filter, the check of chrome.runtime.id, then sendMessage
sendEvent(W, eventData) ==
  IF ~shouldCaptureEvent(W.cs.excludedDomains,
                         [host |-> W.cs.host, class |-> W.cs.class],
                         eventData.type)
  THEN W
  ELSE IF ~W.cs.valid
  THEN W
  ELSE [W EXCEPT !.sent = Append(@, eventData),
                 !.em = CountMilestone(@, eventData)]

EventData(type) ==
  [type |-> type, milestone |-> 0, text |-> <<>>, length |-> 0,
   action |-> "", flag |-> FALSE]

\* a registration of a callback on an element
Listener(element, event, handler, useCapture) ==
  [element |-> element, event |-> event, handler |-> handler,
   capture |-> useCapture]

\* the handlers that are functions of the script; every other handler is a
\* closure made anew by each call of the function that sets it up
NamedHandlers ==
  {"handleClick", "handleInput", "handleSubmit", "handleVisibilityChange",
   "handleBeforeUnload"}

\* element.addEventListener: a callback registered again for the same
\* element, event and phase is registered once
addEventListener(attached, l) ==
  IF l.handler \in NamedHandlers /\ BagIn(l, attached)
  THEN attached
  ELSE attached (+) SetToBag({l})

\* eventListeners.forEach(... element.removeEventListener(event, handler)):
\* a call without the capture argument takes off a registration of the
\* bubble phase only
removeEventListeners(attached, eventListeners) ==
  LET left(l) ==
        IF l.capture
        THEN CopiesIn(l, attached)
        ELSE CopiesIn(l, attached) -
               CopiesIn([element |-> l.element, event |-> l.event,
                         handler |-> l.handler], eventListeners)
      rest == {l \in BagToSet(attached) : left(l) > 0}
  IN [l \in rest |-> left(l)]

addListener(W, element, event, handler, useCapture) ==
  [W EXCEPT !.cs.attached =
              addEventListener(@, Listener(element, event, handler,
                                           useCapture)),
            !.cs.eventListeners =
              @ (+) SetToBag({[element |-> element, event |-> event,
                               handler |-> handler]})]

\* throttle(func, wait): the state of the new closure (timeout is the time
\* at which the pending timer is due, 0 when none is pending)
throttle == [previous |-> 0, timeout |-> 0]

setupScrollMilestones(W) ==
  addListener([W EXCEPT !.cs.scrollMilestonesReached = {},
                        !.cs.throttles = Append(@, throttle)],
              "window", "scroll", "checkScrollMilestones", TRUE)

setupEventListeners(W) ==
  LET W1 == addListener(W, "document", "click", "handleClick", TRUE)
      W2 == addListener(W1, "document", "input", "handleInput", TRUE)
      W3 == addListener(W2, "document", "submit", "handleSubmit", TRUE)
      W4 == setupScrollMilestones(W3)
      W5 == addListener(W4, "document", "visibilitychange",
                        "handleVisibilityChange", TRUE)
  IN addListener(W5, "window", "beforeunload", "handleBeforeUnload", TRUE)

\* setupQueryInputTracking: the listeners when the input is found, a timer
\* for the next attempt when it is not
\* a setupQueryInputTracking that schedules the next attempt whether or not
\* it found the input
keepsRetrying(W, attempt) ==
  LET W0 == [W EXCEPT !.em.lookups = @ + 1]
      W1 == IF "queryInput" \in W.cs.dom
            THEN addListener(W0, "queryInput", "keydown", "handleKeyDown",
                             FALSE)
            ELSE W0
  IN IF attempt < maxAttempts
     THEN [W1 EXCEPT !.cs.timers = @ (+) SetToBag({attempt + 1})]
     ELSE W1

setupQueryInputTracking(W, attempt) ==
  LET W0 == [W EXCEPT !.em.lookups = @ + 1]
  IN IF "queryInput" \in W.cs.dom
     THEN LET W1 == addListener(W0, "queryInput", "keydown", "handleKeyDown",
                                FALSE)
          IN IF "submitButton" \in W.cs.dom
             THEN addListener(W1, "submitButton", "click",
                              "handleSubmitClick", FALSE)
             ELSE W1
     ELSE IF attempt < maxAttempts
     THEN [W0 EXCEPT !.cs.timers = @ (+) SetToBag({attempt + 1})]
     ELSE W0

setupResultClickTracking(W) ==
  IF "responseContainer" \in W.cs.dom
  THEN addListener(W, "responseContainer", "click", "handleResultClick", TRUE)
  ELSE W

setupAIPlatformTracking(W) ==
  IF W.cs.class = "" \/ ~W.cs.platformDetector
  THEN W
  ELSE setupResultClickTracking(setupQueryInputTracking(W, 0))

setupEcommercePlatformTracking(W) ==
  IF W.cs.class = "" \/ ~W.cs.platformDetector
  THEN W
  ELSE addListener(addListener(W, "document", "click", "handleProductClick",
                               TRUE),
                   "document", "click", "handleConversionClick", TRUE)

\* if (currentPlatform.type === 'ai') ... else if (... === 'ecommerce') ...
setupPlatformTracking(W) ==
  IF W.cs.class = "ai"
  THEN setupAIPlatformTracking(W)
  ELSE IF W.cs.class = "ecommerce"
  THEN setupEcommercePlatformTracking(W)
  ELSE W

\* startCapturing; the history of the capture session starts over where
\* the code clears the set
startCapturing(W) ==
  IF W.cs.isRecording
  THEN W
  ELSE setupPlatformTracking(
         setupEventListeners(
           [W EXCEPT !.cs.isRecording = TRUE,
                     !.cs.scrollMilestonesReached = {},
                     !.em.session = NoneEmitted.session,
                     !.em.captures = @ + 1]))

stopCapturing(W) ==
  IF ~W.cs.isRecording
  THEN W
  ELSE [W EXCEPT !.cs.isRecording = FALSE,
                 !.cs.attached =
                   removeEventListeners(@, W.cs.eventListeners),
                 !.cs.eventListeners = EmptyBag,
                 !.cs.scrollMilestonesReached = {}]

\* the forEach of checkScrollMilestones from the i-th milestone on
RECURSIVE eachMilestone(_, _)
eachMilestone(W, i) ==
  IF i > Len(scrollMilestones)
  THEN W
  ELSE LET milestone == scrollMilestones[i]
       IN IF /\ W.cs.scroll >= milestone
             /\ milestone \notin W.cs.scrollMilestonesReached
          THEN eachMilestone(
                 sendEvent([W EXCEPT !.cs.scrollMilestonesReached =
                                        @ \cup {milestone}],
                           [EventData("scroll_milestone")
                              EXCEPT !.milestone = milestone]),
                 i + 1)
          ELSE eachMilestone(W, i + 1)

\* a handler that forgets which milestones it reached
checkWithoutMemory(W) ==
  IF ~W.cs.isRecording
  THEN W
  ELSE eachMilestone([W EXCEPT !.cs.scrollMilestonesReached = {}], 1)

\* the handler of the scroll listener (its throttle lets a call through
\* at most once a second)
checkScrollMilestones(W) ==
  IF ~W.cs.isRecording \/ ~W.cs.platformDetector
  THEN W
  ELSE eachMilestone(W, 1)

\* func.apply(this, args) of the throttle: the check runs
func(W) ==
  LET now == W.cs.now
      gap == now - W.em.lastCheck
  IN checkScrollMilestones(
       [W EXCEPT !.em.minGap =
                   IF W.em.lastCheck # 0 /\ gap < @ THEN gap ELSE @,
                 !.em.lastCheck = now,
                 !.em.unchecked = 0])

\* the function throttle returns, of the i-th throttle made on the page
throttled(W, i) ==
  LET now == W.cs.now
      previous == W.cs.throttles[i].previous
      timeout == W.cs.throttles[i].timeout
      remaining == wait - (now - previous)
  IN IF remaining <= 0 \/ remaining > wait
     THEN func([W EXCEPT !.cs.throttles[i] =
                           [previous |-> now, timeout |-> 0]])
     ELSE IF timeout = 0
     THEN [W EXCEPT !.cs.throttles[i].timeout = now + remaining]
     ELSE W

\* the callback of the throttle's setTimeout
later(W, i) ==
  func([W EXCEPT !.cs.throttles[i] = [previous |-> W.cs.now, timeout |-> 0]])

\* the scroll listeners on window: those of the throttles made last
ScrollListeners(W) ==
  CopiesIn(Listener("window", "scroll", "checkScrollMilestones", TRUE),
           W.cs.attached)

\* window fires scroll: the listeners run in the order they were added
RECURSIVE scrollFrom(_, _)
scrollFrom(W, i) ==
  IF i > Len(W.cs.throttles)
  THEN W
  ELSE scrollFrom(throttled(W, i), i + 1)

scrollEvent(W, p) ==
  LET n == ScrollListeners(W)
      W1 == [W EXCEPT !.cs.scroll = p,
                      !.em.unchecked = IF n > 0 /\ @ = 0 THEN W.cs.now ELSE @]
  IN scrollFrom(W1, Len(W.cs.throttles) - n + 1)

(* --------------------- content script: the handlers ------------------- *)
\* text as a sequence of characters
UpperCase ==
  <<"A", "B", "C", "D", "E", "F", "G", "H", "I", "J", "K", "L", "M", "N",
    "O", "P", "Q", "R", "S", "T", "U", "V", "W", "X", "Y", "Z">>
LowerCase ==
  <<"a", "b", "c", "d", "e", "f", "g", "h", "i", "j", "k", "l", "m", "n",
    "o", "p", "q", "r", "s", "t", "u", "v", "w", "x", "y", "z">>

toLowerCase(s) ==
  [i \in 1..Len(s) |->
     IF \E k \in 1..Len(UpperCase) : UpperCase[k] = s[i]
     THEN LowerCase[CHOOSE k \in 1..Len(UpperCase) : UpperCase[k] = s[i]]
     ELSE s[i]]

WhiteSpace == {" ", "\t", "\n"}

RECURSIVE trimStart(_)
trimStart(s) ==
  IF s # <<>> /\ Head(s) \in WhiteSpace THEN trimStart(Tail(s)) ELSE s

RECURSIVE trimEnd(_)
trimEnd(s) ==
  IF s # <<>> /\ s[Len(s)] \in WhiteSpace
  THEN trimEnd(SubSeq(s, 1, Len(s) - 1))
  ELSE s

trim(s) == trimEnd(trimStart(s))

\* the texts a field or a query input holds when its event fires
Texts == {<<>>, <<" ">>, <<"h", "i">>, <<" ", "h", "i", "\n">>}

REDACTED == <<"[REDACTED]">>

searchIndicators ==
  <<<<"s", "e", "a", "r", "c", "h">>,
    <<"q", "u", "e", "r", "y">>,
    <<"q">>,
    <<"s", "e", "a", "r", "c", "h", "b", "o", "x">>,
    <<"s", "e", "a", "r", "c", "h", "-", "i", "n", "p", "u", "t">>,
    <<"g", "o", "o", "g", "l", "e">>,
    <<"b", "i", "n", "g">>,
    <<"c", "h", "a", "t", "g", "p", "t">>,
    <<"p", "e", "r", "p", "l", "e", "x", "i", "t", "y">>,
    <<"g", "e", "m", "i", "n", "i">>>>

\* <input type="search" name="q" placeholder="Search">
SearchBox ==
  Field("search", "", <<>>, <<"q">>, <<"S", "e", "a", "r", "c", "h">>)
\* <input type="text" id="city" name="city">
CityField ==
  Field("text", "", <<"c", "i", "t", "y">>, <<"c", "i", "t", "y">>, <<>>)
\* <input type="password" id="pwd" name="pwd">
PasswordField ==
  Field("password", "current-password", <<"p", "w", "d">>,
        <<"p", "w", "d">>, <<>>)
\* <input type="password" id="pwd" name="pwd" placeholder="Unique">
HintedPasswordField ==
  Field("password", "new-password", <<"p", "w", "d">>, <<"p", "w", "d">>,
        <<"U", "n", "i", "q", "u", "e">>)
\* <input type="text" autocomplete="cc-csc" id="cvc" name="cvc">
CardCodeField ==
  Field("text", "cc-csc", <<"c", "v", "c">>, <<"c", "v", "c">>, <<>>)
\* <input type="text" autocomplete="cc-number" id="gpay" name="google">
WalletCardField ==
  Field("text", "cc-number", <<"g", "p", "a", "y">>,
        <<"g", "o", "o", "g", "l", "e">>, <<>>)

Fields ==
  {SearchBox, CityField, PasswordField, HintedPasswordField, CardCodeField,
   WalletCardField}

isSearchQueryInput(element) ==
  LET id == toLowerCase(element.id)
      name == toLowerCase(element.name)
      placeholder == toLowerCase(element.placeholder)
  IN \E k \in 1..Len(searchIndicators) :
       \/ Includes(id, searchIndicators[k])
       \/ Includes(name, searchIndicators[k])
       \/ Includes(placeholder, searchIndicators[k])

handleClick(W, e) ==
  IF ~W.cs.isRecording THEN W ELSE sendEvent(W, EventData("click"))

handleInput(W, e) ==
  IF ~W.cs.isRecording
  THEN W
  ELSE LET isSearchInput == isSearchQueryInput(e.field)
       IN sendEvent(W, [EventData("input") EXCEPT
                          !.text = IF isSearchInput THEN e.text ELSE REDACTED,
                          !.length = Len(e.text),
                          !.flag = isSearchInput])

handleSubmit(W, e) ==
  IF ~W.cs.isRecording THEN W ELSE sendEvent(W, EventData("form_submit"))

handleVisibilityChange(W, e) ==
  IF ~W.cs.isRecording
  THEN W
  ELSE sendEvent(W, EventData("visibility_change"))

handleBeforeUnload(W, e) ==
  IF ~W.cs.isRecording THEN W ELSE sendEvent(W, EventData("page_unload"))

\* currentPlatform.platform is read while currentPlatform is null: the
\* handler ends with an uncaught TypeError
TypeError(W) == [W EXCEPT !.out.reply = "TypeError"]

\* the closure handleQuerySubmit, called 10 ms after the keydown or the
\* click with the text the input holds then; reading the platform's name
\* throws when no platform is current
handleQuerySubmit(W, queryText) ==
  IF ~W.cs.isRecording
  THEN W
  ELSE IF trim(queryText) = <<>>
  THEN W
  ELSE IF W.cs.class = ""
  THEN TypeError(W)
  ELSE sendEvent(W, [EventData("ai_query_submitted") EXCEPT
                       !.text = trim(queryText),
                       !.length = Len(trim(queryText))])

\* a handler that takes every Enter for a submission
handleAnyEnter(W, e) ==
  IF e.key = "Enter" THEN handleQuerySubmit(W, e.text) ELSE W

handleKeyDown(W, e) ==
  IF e.key = "Enter" /\ ~e.shiftKey
  THEN handleQuerySubmit(W, e.text)
  ELSE W

handleSubmitClick(W, e) == handleQuerySubmit(W, e.text)

\* a click on a link out of the site, inside the response container
handleResultClick(W, e) ==
  IF ~W.cs.isRecording
  THEN W
  ELSE IF e.target # "resultLink"
  THEN W
  ELSE IF W.cs.class = ""
  THEN TypeError(W)
  ELSE sendEvent(W, EventData("ai_result_click"))

checkSessionForAI(W) ==
  IF ~W.cs.platformDetector
  THEN FALSE
  ELSE \/ isFromAI(W.det.config, W.det.referrer, W.det.aiOverview)
       \/ W.cs.hasAIReferrer

handleProductClick(W, e) ==
  IF ~W.cs.isRecording
  THEN W
  ELSE IF e.target # "productLink"
  THEN W
  ELSE IF W.cs.class = ""
  THEN TypeError(W)
  ELSE sendEvent(W, [EventData("product_click") EXCEPT
                       !.flag = isFromAI(W.det.config, W.det.referrer,
                                         W.det.aiOverview)])

\* the selectors of the e-commerce platform's buttons, in the order
\* addToCart, buyNow, checkout, each with the button it matches
ConversionSelectors ==
  <<[matches |-> "addToCart", selector |-> <<"#", "add-to-cart", "-button">>],
    [matches |-> "buyNow", selector |-> <<"#", "buy-now", "-button">>],
    [matches |-> "checkout",
     selector |-> <<"[name=", "proceedtoretail", "checkout", "]">>]>>

\* a classification that ignores the selector's words
undeterminedAction(selector) == "unknown"

determineAction(selector) ==
  IF Includes(selector, <<"checkout">>)
  THEN "checkout"
  ELSE IF Includes(selector, <<"buy-now">>) \/ Includes(selector, <<"buynow">>)
  THEN "buy_now"
  ELSE IF \/ Includes(selector, <<"add-to-cart">>)
          \/ Includes(selector, <<"addtocart">>)
  THEN "add_to_cart"
  ELSE "unknown"

\* the first selector the target matches decides; with no current platform
\* every sendEvent call throws into the catch of the loop
handleConversionClick(W, e) ==
  IF ~W.cs.isRecording
  THEN W
  ELSE LET hits == {k \in 1..Len(ConversionSelectors) :
                      ConversionSelectors[k].matches = e.target}
       IN IF hits = {} \/ W.cs.class = ""
          THEN W
          ELSE LET k == CHOOSE k \in hits : \A j \in hits : k <= j
               IN sendEvent(W, [EventData("conversion_action") EXCEPT
                     !.action =
                        determineAction(ConversionSelectors[k].selector),
                     !.flag = checkSessionForAI(W)])

call(W, handler, e) ==
  CASE handler = "handleClick" -> handleClick(W, e)
    [] handler = "handleInput" -> handleInput(W, e)
    [] handler = "handleSubmit" -> handleSubmit(W, e)
    [] handler = "handleVisibilityChange" -> handleVisibilityChange(W, e)
    [] handler = "handleBeforeUnload" -> handleBeforeUnload(W, e)
    [] handler = "checkScrollMilestones" -> checkScrollMilestones(W)
    [] handler = "handleKeyDown" -> handleKeyDown(W, e)
    [] handler = "handleSubmitClick" -> handleSubmitClick(W, e)
    [] handler = "handleResultClick" -> handleResultClick(W, e)
    [] handler = "handleProductClick" -> handleProductClick(W, e)
    [] handler = "handleConversionClick" -> handleConversionClick(W, e)

RECURSIVE callTimes(_, _, _, _)
callTimes(W, handler, e, n) ==
  IF n = 0 THEN W ELSE callTimes(call(W, handler, e), handler, e, n - 1)

\* the elements an event fired at the target passes through
Path(target) ==
  {"window", "document"} \cup
    (CASE target = "resultLink" -> {"responseContainer"}
       [] target \in Elements -> {target}
       [] OTHER -> {})

\* the order the handlers of one event are called in: the capture phase from
\* the window down, the registrations of one element in the order of their
\* setup, then the target
Handlers ==
  <<"handleClick", "handleInput", "handleSubmit", "handleVisibilityChange",
    "handleBeforeUnload", "checkScrollMilestones", "handleProductClick",
    "handleConversionClick", "handleResultClick", "handleKeyDown",
    "handleSubmitClick">>

RECURSIVE copiesOf(_, _)
copiesOf(S, attached) ==
  IF S = {}
  THEN 0
  ELSE LET l == CHOOSE l \in S : TRUE
       IN CopiesIn(l, attached) + copiesOf(S \ {l}, attached)

\* how many registrations of the handler the event reaches
Reached(attached, handler, e) ==
  copiesOf({l \in BagToSet(attached) :
              /\ l.handler = handler
              /\ l.event = e.event
              /\ l.element \in Path(e.target)},
           attached)

RECURSIVE dispatchFrom(_, _, _)
dispatchFrom(W, e, k) ==
  IF k > Len(Handlers)
  THEN W
  ELSE dispatchFrom(
         callTimes(W, Handlers[k], e, Reached(W.cs.attached, Handlers[k], e)),
         e, k + 1)

\* the page fires the event: every registration it reaches is called
dispatchEvent(W, e) == dispatchFrom(W, e, 1)

capturePageLoad(W) == sendEvent(W, EventData("page_load"))

\* detectCurrentPlatform, the detector finding the given class
detectCurrentPlatform(W, class) ==
  IF ~W.cs.platformDetector THEN W ELSE [W EXCEPT !.cs.class = class]

\* the MutationObserver / popstate callback when the URL changed: the
\* platform is detected again and, while recording, the tracking of the
\* platform is set up and a page_load is sent
spaNavigation(W, class) ==
  LET W1 == detectCurrentPlatform(W, class)
      W2 == IF W1.cs.isRecording /\ W1.cs.class # ""
            THEN setupPlatformTracking(
                   [W1 EXCEPT !.cs.resetups = @ + 1])
            ELSE W1
  IN IF W2.cs.isRecording THEN capturePageLoad(W2) ELSE W2

\* retryPlatformDetection at DOM ready
retryPlatformDetection(W, class) ==
  IF ~W.cs.platformDetector
  THEN [W EXCEPT !.cs.retried = TRUE]
  ELSE LET previousPlatform == W.cs.class
           W1 == [W EXCEPT !.cs.class = class, !.cs.retried = TRUE]
           platformChanged ==
             \/ previousPlatform = "" /\ class # ""
             \/ previousPlatform # "" /\ class # "" /\ previousPlatform # class
       IN IF platformChanged /\ W1.cs.isRecording
          THEN setupPlatformTracking([W1 EXCEPT !.cs.resetups = @ + 1])
          ELSE W1

\* a listener that ignores the change
ignoreStorageChanged(W, ds) == W

\* chrome.storage.onChanged in the content script
contentStorageChanged(W, ds) == [W EXCEPT !.cs.excludedDomains = ds]

\* chrome.storage.onChanged in the worker
workerStorageChanged(W, ds) == [W EXCEPT !.ss.excludedDomains = ds]

(* ------------------------------- actions ------------------------------ *)
Pending(k) == {t \in BagToSet(tasks) : t.k = k}
FlushAt(pc) == {t \in Pending("flush") : t.pc = pc}

\* what the periodic alarm would do, as far as the state at its firing tells
\* (a process that has not restored yet restores first)
MayFlush ==
  IF sessionState.restored
  THEN sessionState.isRecording /\ Len(sessionState.eventBuffer) > 0
  ELSE stored.isRecording

\* when the environment may deliver an input: Concurrent, while fewer than
\* MaxTasks handlers are suspended; Quiescent, only while none is
Concurrent == BagCardinality(tasks) < MaxTasks
Quiescent == tasks = EmptyBag

\* an input of the user, of a page or of the host
Input == inputs < MaxInputs /\ inputs' = inputs + 1 /\ UNCHANGED killedMidFlush

Step == UNCHANGED <<inputs, killedMidFlush>>

StartRecording(admit) ==
  \E d \in StartData :
    admit /\ Input /\ Commit(onInput(Cur, "START_RECORDING", d))

StopRecording(admit) ==
  admit /\ Input /\ Commit(onInput(Cur, "STOP_RECORDING", ""))

\* the content script of a page calls sendEvent; the message leaves only if
\* the event passes shouldCaptureEvent.  Every page's script holds the list
\* that the script of the page in content holds.
ContentExcluded == content.excludedDomains

EventCaptured(admit) ==
  \E page \in Pages, eventType \in PageKinds :
    /\ shouldCaptureEvent(ContentExcluded, page, eventType)
    /\ admit /\ Input
    /\ Commit(onInput(From(Cur, page), "EVENT_CAPTURED", eventType))

GetStatus(admit) == admit /\ Input /\ Commit(onInput(Cur, "GET_STATUS", ""))

UploadNow(admit) == admit /\ Input /\ Commit(onInput(Cur, "UPLOAD_NOW", ""))

ForceReset(admit) == admit /\ Input /\ Commit(onInput(Cur, "FORCE_RESET", ""))

\* the alarm fires every 5 minutes for as long as it exists
AlarmFires(admit) ==
  /\ alarm /\ admit /\ (MayFlush => ids.upload < MaxUploads) /\ Step
  /\ Commit(onInput(Cur, "alarm", ""))

\* chrome.tabs.onUpdated
tabUpdated(W, host, complete) ==
  IF ~W.ss.isRecording THEN W
  ELSE IF complete /\ ~isUrlExcluded(W, host)
       THEN handleEventCaptured(W, "navigation")
       ELSE W

TabUpdated(admit) ==
  \E host \in Hosts, complete \in BOOLEAN :
    /\ admit /\ Input
    /\ Commit(tabUpdated(
                [Op(From(Cur, [NoPage EXCEPT !.host = host]),
                    "tabs.onUpdated")
                   EXCEPT !.out.data = IF complete THEN "complete"
                                       ELSE "loading"],
                host, complete))

\* chrome.tabs.onActivated, up to the await of chrome.tabs.get
tabActivated(W) ==
  IF ~W.ss.isRecording THEN W
  ELSE AddTask(W, [NoTask EXCEPT !.k = "tabget"])

TabActivated(admit) ==
  /\ admit /\ Input
  /\ Commit(tabActivated(Op(Cur, "tabs.onActivated")))

tabGot(W, host) ==
  IF isUrlExcluded(W, host) THEN W
  ELSE handleEventCaptured(W, "tab_switch")

TabGot ==
  \E t \in Pending("tabget"), host \in Hosts :
    /\ Step
    /\ Commit(tabGot(Op(From(DropTask(Cur, t), [NoPage EXCEPT !.host = host]),
                         "tabs.onActivated"),
                      host))

\* the popup's handleSaveSettings writes excludedDomains; the
\* chrome.storage.onChanged listeners of the worker and of the content
\* script copy the new value
SettingsSaved(counted) ==
  \E ds \in DomainLists :
    /\ ds # stored.excludedDomains
    /\ IF counted THEN Input ELSE Step
    /\ Commit(contentStorageChanged(
                workerStorageChanged(
                  [Op(Cur, "storage.onChanged")
                     EXCEPT !.st.excludedDomains = ds],
                  ds),
                ds))

\* the write as one of the inputs of a run of the worker
SaveSettings == SettingsSaved(TRUE)

\* the write as seen from a page
SaveSettingsOnPage == SettingsSaved(FALSE)

RestoreThen ==
  \E t \in Pending("restore") : Step /\ Commit(restoreThen(DropTask(Cur, t), t))

StartContinue ==
  \E t \in Pending("start") : Step /\ Commit(startContinue(DropTask(Cur, t)))

StopContinue ==
  \E t \in Pending("stop") : Step /\ Commit(stopContinue(DropTask(Cur, t)))

ResetContinue ==
  \E t \in Pending("reset") :
    Step /\ Commit(Reply(DropTask(Cur, t), "State reset successfully"))

EventContinue ==
  \E t \in Pending("event") : Step /\ Commit(eventContinue(DropTask(Cur, t)))

FlushSend == \E t \in FlushAt("saved") : Step /\ Commit(flushSend(Cur, t))

SinkAccept == \E t \in FlushAt("fetch") : Step /\ Commit(sinkAccept(Cur, t))

RespFail == \E t \in FlushAt("fetch") : Step /\ Commit(respFail(Cur, t))

RespOk == \E t \in FlushAt("ok") : Step /\ Commit(respOk(Cur, t))

FlushPersist ==
  \E t \in FlushAt("persist") : Step /\ Commit(flushPersist(Cur, t))

\* the host stops the worker process; the next input starts a fresh one
InFlightEvents ==
  UNION {{e.id : e \in SeqToSet(t.events)} : t \in Pending("flush")}

Kill ==
  /\ sessionState # InitialSessionState \/ tasks # EmptyBag
  /\ inputs < MaxInputs
  /\ inputs' = inputs + 1
  /\ killedMidFlush' = killedMidFlush \cup InFlightEvents
  /\ sessionState' = InitialSessionState
  /\ uploadInProgress' = {}
  /\ tasks' = EmptyBag
  /\ restoreCount' = 0
  /\ out' = [NoOut EXCEPT !.op = "kill"]
  /\ sent' = <<>>
  /\ UNCHANGED <<stored, alarm, ids, acked, content, emitted, detector,
                 returned, eventSize>>

Init ==
  /\ sessionState = InitialSessionState
  /\ uploadInProgress = {}
  /\ stored = InstalledStorage
  /\ alarm = FALSE
  /\ tasks = EmptyBag
  /\ ids = [event |-> 0, session |-> 0, upload |-> 0]
  /\ inputs = 0
  /\ out = NoOut
  /\ acked = {}
  /\ restoreCount = 0
  /\ killedMidFlush = {}
  /\ content = LoadedScript(<<"shop", "com">>, "", {})
  /\ sent = <<>>
  /\ emitted = NoneEmitted
  /\ detector = NoDetector
  /\ returned = NoResult
  /\ eventSize = 1

\* the worker with every listener, inputs arriving while other handlers
\* are suspended at an await
Next ==
  \/ StartRecording(Concurrent)
  \/ StopRecording(Concurrent)
  \/ EventCaptured(Concurrent)
  \/ GetStatus(Concurrent)
  \/ UploadNow(Concurrent)
  \/ ForceReset(Concurrent)
  \/ AlarmFires(Concurrent)
  \/ TabUpdated(Concurrent)
  \/ TabActivated(Concurrent)
  \/ TabGot
  \/ SaveSettings
  \/ RestoreThen
  \/ StartContinue
  \/ StopContinue
  \/ ResetContinue
  \/ EventContinue
  \/ FlushSend
  \/ SinkAccept
  \/ RespFail
  \/ RespOk
  \/ FlushPersist
  \/ Kill

Spec == Init /\ [][Next]_vars

\* the same worker with each input arriving while no handler is suspended
SeqNext ==
  \/ StartRecording(Quiescent)
  \/ StopRecording(Quiescent)
  \/ EventCaptured(Quiescent)
  \/ GetStatus(Quiescent)
  \/ UploadNow(Quiescent)
  \/ ForceReset(Quiescent)
  \/ AlarmFires(Quiescent)
  \/ TabUpdated(Quiescent)
  \/ TabActivated(Quiescent)
  \/ TabGot
  \/ SaveSettings
  \/ RestoreThen
  \/ StartContinue
  \/ StopContinue
  \/ ResetContinue
  \/ EventContinue
  \/ FlushSend
  \/ SinkAccept
  \/ RespFail
  \/ RespOk
  \/ FlushPersist
  \/ Kill

SeqSpec == Init /\ [][SeqNext]_vars

\* SeqSpec with the scheduling the platform gives: a suspended handler is
\* resumed, the alarm fires for as long as it exists, and a sink that is
\* tried again and again accepts in the end
FairSpec ==
  /\ Init
  /\ [][SeqNext]_vars
  /\ WF_vars(RestoreThen)
  /\ WF_vars(StartContinue)
  /\ WF_vars(StopContinue)
  /\ WF_vars(ResetContinue)
  /\ WF_vars(EventContinue)
  /\ WF_vars(TabGot)
  /\ WF_vars(FlushSend)
  /\ WF_vars(RespOk)
  /\ WF_vars(FlushPersist)
  /\ WF_vars(AlarmFires(Quiescent))
  /\ SF_vars(SinkAccept)

(* ------------------- the content script of one page ------------------- *)
\* START_CAPTURE from the worker, or its answer to GET_STATUS
StartCapture ==
  /\ emitted.captures + content.resetups < MaxCaptures
  /\ ~content.isRecording
  /\ Step
  /\ Commit([startCapturing(Op(Cur, "startCapturing")) EXCEPT
              !.em.fromAI = isFromAI(detector.config, detector.referrer,
                                     detector.aiOverview)])

StopCapture ==
  /\ content.isRecording
  /\ Step
  /\ Commit(stopCapturing(Op(Cur, "stopCapturing")))

\* a listener of the page calls sendEvent
SendEvent ==
  \E type \in ContentKinds \ {"scroll_milestone"} :
    /\ Step
    /\ Commit(sendEvent([Op(Cur, "sendEvent") EXCEPT !.out.data = type],
                        EventData(type)))

\* the user scrolls down, or stays, and the scroll listener runs
Scroll ==
  \E p \in ScrollStops :
    /\ p >= content.scroll
    /\ content.isRecording
    /\ Step
    /\ Commit(checkScrollMilestones(
                [Op(Cur, "scroll") EXCEPT !.cs.scroll = p]))

\* the user scrolls while no scroll listener is attached
ScrollUnobserved ==
  \E p \in ScrollStops :
    /\ p > content.scroll
    /\ ~content.isRecording
    /\ Step
    /\ Commit([Op(Cur, "scroll") EXCEPT !.cs.scroll = p])

\* the URL changes without a page load, to one of the same or of another
\* class
SpaNavigation ==
  \E class \in Classes :
    /\ (content.isRecording /\ class # "" /\ content.platformDetector)
         => emitted.captures + content.resetups < MaxCaptures
    /\ Step
    /\ Commit(spaNavigation(Op(Cur, "spaNavigation"), class))

\* the extension is reloaded or removed under the page
ContextInvalidated ==
  /\ content.valid
  /\ Step
  /\ Commit([Op(Cur, "invalidated") EXCEPT !.cs.valid = FALSE])

\* a page just loaded, of any hostname and class, under any stored settings;
\* the worker is not part of these runs
PageInit ==
  \E host \in Hosts, class \in Classes, ds \in DomainLists :
    /\ sessionState = InitialSessionState
    /\ uploadInProgress = {}
    /\ stored = [InstalledStorage EXCEPT !.excludedDomains = ds]
    /\ alarm = FALSE
    /\ tasks = EmptyBag
    /\ ids = [event |-> 0, session |-> 0, upload |-> 0]
    /\ inputs = 0
    /\ out = NoOut
    /\ acked = {}
    /\ restoreCount = 0
    /\ killedMidFlush = {}
    /\ content = LoadedScript(host, class, ds)
    /\ sent = <<>>
    /\ emitted = NoneEmitted
    /\ detector = NoDetector
    /\ returned = NoResult
    /\ eventSize = 1

PageNext ==
  \/ StartCapture
  \/ StopCapture
  \/ SendEvent
  \/ Scroll
  \/ ScrollUnobserved
  \/ SpaNavigation
  \/ ContextInvalidated
  \/ SaveSettingsOnPage

PageSpec == PageInit /\ [][PageNext]_vars

(* ------------------ the listeners of one page ------------------------- *)
\* config/platforms.json as the script of the page loaded it
platformConfig ==
  [ai_platforms |-> <<chatgpt, google_ai, perplexity>>,
   ecommerce_platforms |-> <<amazon, google_shopping, generic_ecommerce>>]

\* the page of the AI platform and the page of the shop the user goes to
ChatPage == Url(<<"chat", "openai", "com">>, <<>>)
ShopPage == Url(<<"www", "amazon", "com">>, <<"dp">>)

\* the pages the script is loaded on, and the pages they are reached from
Locations ==
  {Url(<<"chat", "openai", "com">>, <<>>),
   Url(<<"www", "amazon", "com">>, <<"dp">>)}
Referrers == {NoUrl, Url(<<"chat", "openai", "com">>, <<>>)}

\* what a click may land on, the submit button apart
ClickTargets == {"body", "productLink", "addToCart", "checkout", "resultLink"}
Keys == {"Enter", "a"}

\* the page fires a DOM event
Fire(W, e) ==
  dispatchEvent([Op(W, e.event) EXCEPT !.out.event = e, !.out.reply = ""], e)

Click ==
  \E target \in ClickTargets :
    /\ target = "resultLink" => "responseContainer" \in content.dom
    /\ Step
    /\ Commit(Fire(Cur, DomEvent("click", target)))

\* a click on the submit button, the query input holding the text 10 ms later
ClickSubmit ==
  \E text \in Texts :
    /\ "submitButton" \in content.dom
    /\ Step
    /\ Commit(Fire(Cur, [DomEvent("click", "submitButton") EXCEPT
                           !.text = text]))

\* a key goes down in the query input, which holds the text 10 ms later
KeyDown ==
  \E key \in Keys, shiftKey \in BOOLEAN, text \in Texts :
    /\ "queryInput" \in content.dom
    /\ key # "Enter" => text = <<"h", "i">>
    /\ Step
    /\ Commit(Fire(Cur, [DomEvent("keydown", "queryInput") EXCEPT
                           !.key = key, !.shiftKey = shiftKey,
                           !.text = text]))

\* the user types into a field of the page
TypeInput ==
  \E field \in Fields, text \in Texts :
    /\ text = trim(text) /\ text # <<>>
    /\ Step
    /\ Commit(Fire(Cur, [DomEvent("input", "field") EXCEPT
                           !.field = field, !.text = text]))

SubmitForm == Step /\ Commit(Fire(Cur, DomEvent("submit", "form")))

VisibilityChange ==
  Step /\ Commit(Fire(Cur, DomEvent("visibilitychange", "document")))

BeforeUnload == Step /\ Commit(Fire(Cur, DomEvent("beforeunload", "window")))

\* the DOM is ready and the deferred detection runs
RetryDetection ==
  \E class \in Classes :
    /\ ~content.retried
    /\ emitted.captures + content.resetups < MaxCaptures
    /\ Step
    /\ Commit(retryPlatformDetection(Op(Cur, "retryPlatformDetection"),
                                     class))

\* a retry timer of setupQueryInputTracking fires
QueryInputRetry ==
  \E attempt \in BagToSet(content.timers) :
    /\ Step
    /\ Commit(setupQueryInputTracking(
                [Op(Cur, "setupQueryInputTracking")
                   EXCEPT !.cs.timers = @ (-) SetToBag({attempt})],
                attempt))

\* the page renders the elements the selectors look for
Rendered ==
  /\ content.dom # Elements
  /\ Step
  /\ Commit([Op(Cur, "rendered") EXCEPT !.cs.dom = Elements])

\* the script of a page just loaded, the catalog loaded or not
ScriptOn(loaded, location, referrer, dom) ==
  LET class == IF loaded
               THEN detect(platformConfig, Href(location), location.host,
                           FALSE).type
               ELSE ""
  IN [LoadedScript(location.host, class, {}) EXCEPT
        !.platformDetector = loaded,
        !.dom = dom,
        !.hasAIReferrer = loaded /\ isFromAI(platformConfig, referrer, FALSE)]

DetectorOn(loaded, location, referrer) ==
  [config |-> IF loaded THEN platformConfig ELSE NoDetector.config,
   location |-> location, referrer |-> referrer, aiOverview |-> FALSE,
   selectorCache |-> NoCache, document |-> {}]

\* the worker, which is not part of the runs of a page
WorkerIdle ==
  /\ sessionState = InitialSessionState
  /\ uploadInProgress = {}
  /\ stored = InstalledStorage
  /\ alarm = FALSE
  /\ tasks = EmptyBag
  /\ ids = [event |-> 0, session |-> 0, upload |-> 0]
  /\ inputs = 0
  /\ acked = {}
  /\ restoreCount = 0
  /\ killedMidFlush = {}
  /\ returned = NoResult

\* a page just loaded and rendered, no domain excluded: the catalog loaded
\* or failed to load, the page is of the class the detector finds
CaptureInit ==
  \E loaded \in BOOLEAN, location \in Locations, referrer \in Referrers :
    /\ WorkerIdle
    /\ out = NoOut
    /\ content = ScriptOn(loaded, location, referrer, Elements)
    /\ sent = <<>>
    /\ emitted = NoneEmitted
    /\ detector = DetectorOn(loaded, location, referrer)
    /\ eventSize = 1

\* what the user does on the page, and the capture's starts and stops
CaptureNext ==
  \/ StartCapture
  \/ StopCapture
  \/ Click
  \/ TypeInput
  \/ SubmitForm
  \/ VisibilityChange
  \/ BeforeUnload
  \/ Scroll
  \/ ScrollUnobserved
  \/ SpaNavigation

CaptureSpec == CaptureInit /\ [][CaptureNext]_vars

\* the page of an AI platform just loaded, at document_start: nothing is
\* rendered yet and the detection at DOM ready is still to come
QueryInit ==
  /\ WorkerIdle
  /\ out = NoOut
  /\ content =
       [ScriptOn(TRUE, Url(<<"chat", "openai", "com">>, <<>>), NoUrl, {})
          EXCEPT !.retried = FALSE]
  /\ sent = <<>>
  /\ emitted = NoneEmitted
  /\ detector =
       DetectorOn(TRUE, Url(<<"chat", "openai", "com">>, <<>>), NoUrl)
  /\ eventSize = 1

QueryNext ==
  \/ StartCapture
  \/ StopCapture
  \/ KeyDown
  \/ ClickSubmit
  \/ SpaNavigation
  \/ RetryDetection
  \/ QueryInputRetry
  \/ Rendered

QuerySpec == QueryInit /\ [][QueryNext]_vars

(* ------------- one call of setupAIPlatformTracking -------------------- *)
\* the one call this specification follows
SetupTracking ==
  /\ emitted.lookups = 0
  /\ Step
  /\ Commit(setupAIPlatformTracking(Op(Cur, "setupAIPlatformTracking")))

\* the page adds or removes elements the selectors look for
DomMutates ==
  \E dom \in SUBSET Elements :
    /\ dom # content.dom
    /\ Step
    /\ Commit([Op(Cur, "rendered") EXCEPT !.cs.dom = dom])

\* the page of an AI platform, detected, with any part of it rendered
RetryInit ==
  \E dom \in SUBSET Elements :
    /\ WorkerIdle
    /\ out = NoOut
    /\ content = ScriptOn(TRUE, Url(<<"chat", "openai", "com">>, <<>>),
                          NoUrl, dom)
    /\ sent = <<>>
    /\ emitted = NoneEmitted
    /\ detector =
         DetectorOn(TRUE, Url(<<"chat", "openai", "com">>, <<>>), NoUrl)
    /\ eventSize = 1

RetryNext ==
  \/ SetupTracking
  \/ QueryInputRetry
  \/ DomMutates

\* a timer that was set fires
RetrySpec ==
  RetryInit /\ [][RetryNext]_vars /\ WF_vars(QueryInputRetry)

(* ------------------- the throttle of the scroll handler --------------- *)
\* the user scrolls, down or up, or the page scrolls itself
ScrollEvent ==
  \E p \in ScrollStops :
    /\ Step
    /\ Commit(scrollEvent(Op(Cur, "scroll"), p))

\* a timer of a throttle is due and its callback runs
ThrottleTimeout ==
  \E i \in 1..Len(content.throttles) :
    /\ content.throttles[i].timeout # 0
    /\ content.throttles[i].timeout <= content.now
    /\ Step
    /\ Commit(later(Op(Cur, "later"), i))

\* time passes, once the timers that are due have run
TimePasses ==
  /\ content.now < MaxClock
  /\ \A i \in 1..Len(content.throttles) :
       content.throttles[i].timeout = 0
         \/ content.throttles[i].timeout > content.now
  /\ Step
  /\ Commit([Op(Cur, "tick") EXCEPT !.cs.now = @ + Tick])

\* a page of the shop just loaded
ThrottleInit ==
  /\ WorkerIdle
  /\ out = NoOut
  /\ content = ScriptOn(TRUE, ShopPage, NoUrl, Elements)
  /\ sent = <<>>
  /\ emitted = NoneEmitted
  /\ detector = DetectorOn(TRUE, ShopPage, NoUrl)
  /\ eventSize = 1

ThrottleNext ==
  \/ StartCapture
  \/ StopCapture
  \/ ScrollEvent
  \/ ThrottleTimeout
  \/ TimePasses

ThrottleSpec == ThrottleInit /\ [][ThrottleNext]_vars

(* ------------------- the pages of one tab ------------------------------ *)
\* the tab loads another page of the shop: the new page's script runs init(),
\* finds what earlier pages of the tab left in sessionStorage, and starts
\* capturing when the worker answers that a recording is on
TabNavigate ==
  \E referrer \in {NoUrl, ChatPage, ShopPage} :
    /\ Input
    /\ LET recording == content.isRecording
           script == [ScriptOn(TRUE, ShopPage, referrer, Elements) EXCEPT
                        !.hasAIReferrer = @ \/ content.hasAIReferrer]
           W == [Op(Cur, "init") EXCEPT
                   !.cs = script,
                   !.det = DetectorOn(TRUE, ShopPage, referrer),
                   !.em = [NoneEmitted EXCEPT
                             !.fromAI =
                                /\ recording
                                /\ \/ emitted.fromAI
                                   \/ isFromAI(platformConfig, referrer,
                                               FALSE)]]
       IN Commit(IF recording THEN startCapturing(W) ELSE W)

\* a page of the shop in a new tab, opened from the AI page or not
TabInit ==
  \E referrer \in {NoUrl, ChatPage} :
    /\ WorkerIdle
    /\ out = NoOut
    /\ content = ScriptOn(TRUE, ShopPage, referrer, Elements)
    /\ sent = <<>>
    /\ emitted = NoneEmitted
    /\ detector = DetectorOn(TRUE, ShopPage, referrer)
    /\ eventSize = 1

TabNext ==
  \/ StartCapture
  \/ StopCapture
  \/ Click
  \/ TabNavigate

TabSpec == TabInit /\ [][TabNext]_vars

(* ------------------- a journey from a query to a cart ----------------- *)
\* the k-th step of the journey
Stage(k) == inputs = k /\ inputs' = k + 1 /\ UNCHANGED killedMidFlush

\* chrome.runtime.onMessage in the worker for each message the page sent, in
\* the order sent
RECURSIVE deliver(_, _)
deliver(W, i) ==
  IF i > Len(W.sent)
  THEN W
  ELSE deliver(onInput(W, "EVENT_CAPTURED", W.sent[i].type), i + 1)

\* the popup sends START_RECORDING for the participant
JourneyStart ==
  Stage(0) /\ Commit(onInput(Op(Cur, "START_RECORDING"), "START_RECORDING",
                             "P001"))

\* the popup got the worker's answer and sends START_CAPTURE to the page
JourneyCapture ==
  /\ sessionState.isRecording
  /\ Pending("start") = {}
  /\ Stage(1)
  /\ Commit(startCapturing(Op(Cur, "startCapturing")))

\* the user submits one query, with Enter or with the button
JourneyQuery ==
  \E e \in {[DomEvent("keydown", "queryInput") EXCEPT !.key = "Enter"],
            DomEvent("click", "submitButton")},
     text \in {t \in Texts : trim(t) # <<>>} :
    /\ Stage(2)
    /\ Commit(deliver(Fire(Cur, [e EXCEPT !.text = text]), 1))

\* the tab loads the shop's page from the AI page: the new page's script
\* runs init() and sends its page_load
JourneyNavigate ==
  /\ Stage(3)
  /\ Commit(deliver(
              capturePageLoad(
                [Op(Cur, "init") EXCEPT
                   !.cs = ScriptOn(TRUE, ShopPage, ChatPage, Elements),
                   !.det = DetectorOn(TRUE, ShopPage, ChatPage),
                   !.em = NoneEmitted]),
              1))

\* the page answers GET_STATUS with the recording state, and the script
\* starts capturing
JourneyStatus ==
  /\ Stage(4)
  /\ LET W == onInput(Op(Cur, "GET_STATUS"), "GET_STATUS", "")
     IN Commit(IF W.ss.isRecording THEN startCapturing(W) ELSE W)

\* chrome.tabs.onUpdated reports the load as complete
JourneyLoaded ==
  /\ Stage(5)
  /\ Commit(tabUpdated([Op(From(Cur, [NoPage EXCEPT !.host = ShopPage.host]),
                           "tabs.onUpdated") EXCEPT !.out.data = "complete"],
                       ShopPage.host, TRUE))

\* one click on the add-to-cart button
JourneyClick ==
  /\ Stage(6)
  /\ Commit(deliver(Fire(Cur, DomEvent("click", "addToCart")), 1))

\* the popup sends STOP_RECORDING
JourneyStop ==
  Stage(7) /\ Commit(onInput(Op(Cur, "STOP_RECORDING"), "STOP_RECORDING", ""))

\* a fresh worker, the AI page loaded and rendered, events far smaller than
\* the buffer's limit
JourneyInit ==
  /\ WorkerIdle
  /\ out = NoOut
  /\ content = ScriptOn(TRUE, ChatPage, NoUrl, Elements)
  /\ sent = <<>>
  /\ emitted = NoneEmitted
  /\ detector = DetectorOn(TRUE, ChatPage, NoUrl)
  /\ eventSize = 0

\* the steps of the journey, the handlers of the worker resuming in between,
\* and a sink that accepts; the journey is over before the alarm's period
JourneyNext ==
  \/ JourneyStart
  \/ JourneyCapture
  \/ JourneyQuery
  \/ JourneyNavigate
  \/ JourneyStatus
  \/ JourneyLoaded
  \/ JourneyClick
  \/ JourneyStop
  \/ RestoreThen
  \/ StartContinue
  \/ StopContinue
  \/ EventContinue
  \/ FlushSend
  \/ SinkAccept
  \/ RespOk
  \/ FlushPersist

JourneySpec == JourneyInit /\ [][JourneyNext]_vars

(* ------------------- the detector on one page ------------------------- *)
\* detectCurrentPlatform / retryPlatformDetection: detect on the location
Detect ==
  /\ Step
  /\ Commit([Cur EXCEPT
       !.res = [NoResult EXCEPT
                  !.fn = "detect", !.url = detector.location,
                  !.platform = detect(detector.config,
                                      Href(detector.location),
                                      detector.location.host,
                                      detector.aiOverview)]])

\* detect on any URL and hostname, as isFromAI and enrichEvent call it
DetectUrl ==
  \E u \in Urls :
    /\ u # detector.location
    /\ Step
    /\ Commit([Cur EXCEPT
         !.res = [NoResult EXCEPT
                    !.fn = "detect", !.url = u,
                    !.platform = detect(detector.config, Href(u), u.host,
                                        detector.aiOverview)]])

\* enrichEvent: isAIToEcommerce(document.referrer, window.location.href)
IsAIToEcommerce ==
  /\ Step
  /\ Commit([Cur EXCEPT
       !.res = [NoResult EXCEPT
                  !.fn = "isAIToEcommerce",
                  !.flag = isAIToEcommerce(detector.config, detector.referrer,
                                           detector.location,
                                           detector.aiOverview)]])

\* cacheAIReferrer, handleProductClick, checkSessionForAI
IsFromAI ==
  /\ Step
  /\ Commit([Cur EXCEPT
       !.res = [NoResult EXCEPT
                  !.fn = "isFromAI",
                  !.flag = isFromAI(detector.config, detector.referrer,
                                    detector.aiOverview)]])

\* the page renders or removes the AI overview
DomChanges ==
  /\ Step
  /\ Commit([Cur EXCEPT !.det.aiOverview = ~@, !.res = NoResult])

\* a detector over any catalog on any page reached from any referrer
DetectInit ==
  /\ sessionState = InitialSessionState
  /\ uploadInProgress = {}
  /\ stored = InstalledStorage
  /\ alarm = FALSE
  /\ tasks = EmptyBag
  /\ ids = [event |-> 0, session |-> 0, upload |-> 0]
  /\ inputs = 0
  /\ out = NoOut
  /\ acked = {}
  /\ restoreCount = 0
  /\ killedMidFlush = {}
  /\ content = LoadedScript(<<"shop", "com">>, "", {})
  /\ sent = <<>>
  /\ emitted = NoneEmitted
  /\ detector \in [config : Catalogs, location : Urls \ {NoUrl},
                   referrer : Urls, aiOverview : BOOLEAN,
                   selectorCache : {NoCache}, document : {{}}]
  /\ returned = NoResult
  /\ eventSize = 1

DetectNext ==
  \/ Detect
  \/ DetectUrl
  \/ IsAIToEcommerce
  \/ IsFromAI
  \/ DomChanges

DetectSpec == DetectInit /\ [][DetectNext]_vars

(* ------------------- selector lookups on one page --------------------- *)
\* a caller looks an element up
FindElement ==
  \E arg \in Arguments :
    /\ Step
    /\ LET r == findElement(detector.selectorCache, detector.document, arg)
       IN Commit([Cur EXCEPT
            !.det.selectorCache = r.cache,
            !.res = [NoResult EXCEPT !.fn = "findElement", !.arg = arg,
                                     !.el = r.el]])

\* the page adds or removes an element
DocumentChanges ==
  \E document \in Documents :
    /\ document # detector.document
    /\ Step
    /\ Commit([Cur EXCEPT !.det.document = document, !.res = NoResult])

\* a new detector (its cache empty) on a page in any state
FindInit ==
  /\ WorkerIdle
  /\ out = NoOut
  /\ content = LoadedScript(<<"shop", "com">>, "", {})
  /\ sent = <<>>
  /\ emitted = NoneEmitted
  /\ \E document \in Documents :
       detector = [NoDetector EXCEPT !.document = document]
  /\ returned = NoResult
  /\ eventSize = 1

FindNext ==
  \/ FindElement
  \/ DocumentChanges

FindSpec == FindInit /\ [][FindNext]_vars

\* The worker started again after a session whose final flush failed:
\* START_RECORDING with P001, STOP_RECORDING with all three attempts failing,
\* then the worker process is stopped.  Storage holds the unacknowledged batch
\* of session_start and session_end; the buffer was never persisted.
FailedBatch ==
  [uploadId |-> 1,
   events |-> << [id |-> 1, type |-> "session_start", sessionId |-> 1,
                  participantId |-> "P001", totalEvents |-> 0],
                 [id |-> 2, type |-> "session_end", sessionId |-> 1,
                  participantId |-> NoPid, totalEvents |-> 1] >>,
   sessionId |-> 1, participantId |-> "P001"]

FailedSessionStorage ==
  [InstalledStorage EXCEPT !.participantId = "P001",
                           !.pendingUploads = {FailedBatch}]

\* a fresh worker process over that storage and the settings ds; SeqSpec
\* reaches these states (the count of inputs aside), with the settings
\* saved at any time before the worker stopped
AfterFailedSession(ds) ==
  /\ sessionState = InitialSessionState
  /\ uploadInProgress = {}
  /\ stored = [FailedSessionStorage EXCEPT !.excludedDomains = ds]
  /\ alarm = FALSE
  /\ tasks = EmptyBag
  /\ ids = [event |-> 2, session |-> 1, upload |-> 1]
  /\ acked = {}
  /\ restoreCount = 0
  /\ killedMidFlush = {}
  /\ content = LoadedScript(<<"shop", "com">>, "", ds)
  /\ sent = <<>>
  /\ emitted = NoneEmitted
  /\ detector = NoDetector
  /\ returned = NoResult
  /\ eventSize = 1

RestartInit ==
  /\ \E ds \in DomainLists : AfterFailedSession(ds)
  /\ inputs = 0
  /\ out = NoOut

RestartSpec == RestartInit /\ [][SeqNext]_vars

(* ------------- the earlier background worker (part_005) --------------- *)
\* This worker keeps its state in memory only, clears the buffer when it
\* takes the snapshot, and flushes from a setInterval timer.

\* uploadBufferedData up to the first fetch: snapshot, clear, payload, POST
legacyUploadBufferedData(W) ==
  IF Len(W.ss.eventBuffer) = 0
  THEN W
  ELSE AddTask(
         [NewUpload(W) EXCEPT !.ss.eventBuffer = <<>>],
         [NoTask EXCEPT !.k = "flush", !.pc = "fetch",
                        !.id = W.ids.upload + 1,
                        !.events = W.ss.eventBuffer, !.attempt = 1,
                        !.caller = "legacy"])

\* the catch of an attempt: the next attempt after retryDelay, or the
\* payload is put in uploadQueue (the payload was built at the snapshot; no
\* action of this worker's specification changes the session in between, so
\* the ids read here are the ids it was built with)
legacyRespFail(W, t) ==
  IF t.attempt < retryAttempts
  THEN AddTask(DropTask(W, t), [t EXCEPT !.attempt = @ + 1])
  ELSE [DropTask(W, t) EXCEPT
          !.ss.uploadQueue =
             Append(@, [sessionId |-> W.ss.sessionId,
                        participantId |-> W.ss.participantId,
                        events |-> t.events])]

\* response.ok: the statistics are written and the function returns
legacyRespOk(W, t) == DropTask(W, t)

\* handleEventCaptured: no await; the size check starts a flush
legacyHandleEventCaptured(W, type) ==
  IF ~W.ss.isRecording
  THEN W
  ELSE LET W1 == Push(W, Event(type, W, 0))
       IN IF Len(W1.ss.eventBuffer) * W1.size >= MaxBufferEvents
          THEN legacyUploadBufferedData(W1)
          ELSE W1

\* the callback of the setInterval of schedulePeriodicUpload
legacyInterval(W) ==
  IF W.ss.isRecording /\ Len(W.ss.eventBuffer) > 0
  THEN legacyUploadBufferedData(W)
  ELSE W

LegacyEventCaptured ==
  \E eventType \in PageKinds :
    /\ Input
    /\ Commit(legacyHandleEventCaptured(Op(Cur, "EVENT_CAPTURED"),
                                        eventType))

\* the timer fires while there is something to flush (it fires without
\* effect otherwise)
LegacyInterval ==
  /\ alarm
  /\ sessionState.isRecording /\ Len(sessionState.eventBuffer) > 0
  /\ Step
  /\ Commit(legacyInterval(Op(Cur, "interval")))

LegacyRespFail ==
  \E t \in FlushAt("fetch") : Step /\ Commit(legacyRespFail(Cur, t))

LegacyRespOk == \E t \in FlushAt("ok") : Step /\ Commit(legacyRespOk(Cur, t))

\* a session was started: session_start is buffered and the timer is set
LegacyInit ==
  /\ sessionState =
       [InitialSessionState EXCEPT
          !.isRecording = TRUE, !.sessionId = 1, !.participantId = "P001",
          !.startTime = 1, !.restored = TRUE,
          !.eventBuffer = << [id |-> 1, type |-> "session_start",
                              sessionId |-> 1, participantId |-> "P001",
                              totalEvents |-> 0] >>]
  /\ uploadInProgress = {}
  /\ stored = [InstalledStorage EXCEPT !.isRecording = TRUE,
                                       !.participantId = "P001",
                                       !.currentSessionId = 1]
  /\ alarm = TRUE
  /\ tasks = EmptyBag
  /\ ids = [event |-> 1, session |-> 1, upload |-> 0]
  /\ inputs = 0
  /\ out = NoOut
  /\ acked = {}
  /\ restoreCount = 0
  /\ killedMidFlush = {}
  /\ content = LoadedScript(<<"shop", "com">>, "", {})
  /\ sent = <<>>
  /\ emitted = NoneEmitted
  /\ detector = NoDetector
  /\ returned = NoResult
  /\ eventSize \in {0, 1}

LegacyNext ==
  \/ LegacyEventCaptured
  \/ LegacyInterval
  \/ SinkAccept
  \/ LegacyRespFail
  \/ LegacyRespOk

\* the timer keeps firing, the sink answers every POST, and a sink that is
\* tried again and again accepts in the end
LegacySpec ==
  /\ LegacyInit
  /\ [][LegacyNext]_vars
  /\ WF_vars(LegacyInterval)
  /\ WF_vars(SinkAccept \/ LegacyRespFail)
  /\ SF_vars(SinkAccept)
  /\ WF_vars(LegacyRespOk)

(* ------------------------------ properties ---------------------------- *)
BufferIds(buf) == {e.id : e \in SeqToSet(buf)}
FlushTasks(b) == {t \in BagToSet(b) : t.k = "flush"}

\* C1: every event that was placed in the buffer is eventually part of a
\* batch the sink acknowledged.
C1_AtLeastOnce ==
  \A e \in 1..MaxInputs : (e <= ids.event) ~> (e \in acked)

\* C2: an event leaves the in-memory buffer only in a step after which a
\* batch containing it is acknowledged; no handler step (the process being
\* killed is not one) removes an unacknowledged event.
C2_OnlyAckRemoves ==
  [][out'.op # "kill" =>
       \A e \in BufferIds(sessionState.eventBuffer) :
         e \notin BufferIds(sessionState'.eventBuffer) => e \in acked']_vars

\* C3: two different batches that were sent to the sink and are in flight
\* at the same time share no event.
C3_NoDuplicateSnapshot ==
  \A t1, t2 \in FlushTasks(tasks) :
    (t1.id # t2.id /\ t1.pc # "saved" /\ t2.pc # "saved")
      => BufferIds(t1.events) \cap BufferIds(t2.events) = {}

\* C4: every event of a snapshot that was in flight when the worker was
\* killed is eventually part of a batch the sink acknowledged.
C4_RestartMidFlushDelivers ==
  \A e \in 1..MaxInputs : (e \in killedMidFlush) ~> (e \in acked)

\* C5: whenever no handler is suspended (and this process has restored),
\* the stored buffer and session metadata equal the in-memory ones.
C5_PersistedEqualsMemory ==
  (tasks = EmptyBag /\ sessionState.restored) =>
    /\ stored.eventBuffer = sessionState.eventBuffer
    /\ stored.isRecording = sessionState.isRecording
    /\ stored.currentSessionId = sessionState.sessionId
    /\ stored.recordingStartTime = sessionState.startTime
    /\ stored.totalSessionEvents = sessionState.totalSessionEvents

\* C6: restoreSessionState runs at most once in one worker process.
C6_RestoreOnce == restoreCount <= 1

\* C7: a START_RECORDING handled while a session is recording leaves the
\* session state and the stored metadata as they were.
C7_StartWhileRecordingRejected ==
  [][(out'.op = "START_RECORDING" /\ sessionState.restored
        /\ sessionState.isRecording)
       => (sessionState' = sessionState /\ stored' = stored)]_vars

\* C8: a START_RECORDING with an empty or missing participantId is rejected
\* and changes no session state, nothing stored, and not the alarm.
InvalidStartData == {"", NoData}

C8_InvalidStartRejected ==
  [][(out'.op = "START_RECORDING" /\ sessionState.restored
        /\ out'.data \in InvalidStartData)
       => (sessionState' = sessionState /\ stored' = stored
             /\ alarm' = alarm /\ tasks' = tasks)]_vars

\* C9: a STOP_RECORDING handled while the worker is idle replies with a
\* failure and leaves the buffer, the session fields, storage, the pending
\* batches and the alarm unchanged; no session_end is appended and no flush
\* starts.
C9_StopWhileIdleFails ==
  [][(out'.op = "STOP_RECORDING" /\ ~sessionState'.isRecording) =>
       /\ out'.reply = "No active recording"
       /\ sessionState' = [sessionState EXCEPT !.restored = TRUE]
       /\ stored' = stored
       /\ uploadInProgress' = uploadInProgress
       /\ alarm' = alarm
       /\ ids' = ids
       /\ FlushTasks(tasks') = FlushTasks(tasks)]_vars

\* a STOP_RECORDING was refused while unsent events are still buffered
C9_Witness ==
  /\ out.op = "STOP_RECORDING"
  /\ out.reply = "No active recording"
  /\ ~sessionState.isRecording
  /\ Len(sessionState.eventBuffer) > 0

\* C10: an EVENT_CAPTURED message or a tab callback handled while the worker
\* is not recording changes neither the buffer nor totalSessionEvents nor
\* storage, and starts no flush.
C10_EnqueueNoopWhileIdle ==
  [][(out'.op \in {"EVENT_CAPTURED", "tabs.onUpdated", "tabs.onActivated"}
        /\ ~sessionState'.isRecording) =>
       /\ sessionState' = [sessionState EXCEPT !.restored = sessionState'.restored]
       /\ stored' = stored
       /\ uploadInProgress' = uploadInProgress
       /\ ids' = ids
       /\ BagToSet(tasks') \subseteq BagToSet(tasks)]_vars

\* an EVENT_CAPTURED was handled while idle with unsent events buffered
C10_Witness ==
  /\ out.op = "EVENT_CAPTURED"
  /\ out.reply = "success"
  /\ ~sessionState.isRecording
  /\ Len(sessionState.eventBuffer) > 0

\* the step in which flush t gives up after its last failed attempt
Exhausted(t) ==
  /\ t.pc = "fetch"
  /\ t.attempt = retryAttempts
  /\ out'.op # "kill"
  /\ ~\E u \in FlushTasks(tasks') : u.id = t.id

C12_PendingRemovedOnlyOnAck ==
  [][\A b \in stored.pendingUploads :
       b \notin stored'.pendingUploads => BufferIds(b.events) \subseteq acked']_vars

StopFlushes(b) == {t \in FlushTasks(b) : t.caller = "STOP_RECORDING"}

\* C13 as stated: the worker is Idle while the flush requested by
\* STOP_RECORDING is still in flight (the transition does not wait for it).
C13_StopDoesNotBlock ==
  \A t \in StopFlushes(tasks) : ~sessionState.isRecording

\* C13: a STOP_RECORDING handled while recording appends session_end as the
\* last event, starts one flush of the whole buffer, cancels no flush that is
\* in flight, and leaves the worker Recording; no attempt or retry of that
\* flush changes isRecording; the worker becomes Idle, in memory and in
\* storage, in the step in which that flush returns, be it acknowledged or
\* out of retries.
C13_StopWaitsForFlush ==
  [][/\ (out'.op = "STOP_RECORDING" /\ out'.reply # "No active recording") =>
          /\ sessionState'.isRecording
          /\ Len(sessionState'.eventBuffer) > 0
          /\ sessionState'.eventBuffer[Len(sessionState'.eventBuffer)].type
               = "session_end"
          /\ \E u \in StopFlushes(tasks') :
               /\ u \notin FlushTasks(tasks)
               /\ u.pc = "saved"
               /\ u.events = sessionState'.eventBuffer
               /\ StopFlushes(tasks') \ StopFlushes(tasks) = {u}
          /\ FlushTasks(tasks) \subseteq FlushTasks(tasks')
     /\ \A t \in StopFlushes(tasks) :
          IF \E u \in FlushTasks(tasks') : u.id = t.id
          THEN t \notin FlushTasks(tasks')
                 => sessionState'.isRecording = sessionState.isRecording
          ELSE out'.op = "kill"
                 \/ (/\ ~sessionState'.isRecording
                     /\ ~stored'.isRecording
                     /\ Pending("stop")' # {})]_vars

\* the final flush ran out of retries and the worker went Idle after it
C13_Witness ==
  /\ Pending("stop") # {}
  /\ ~sessionState.isRecording
  /\ ~stored.isRecording
  /\ Len(sessionState.eventBuffer) > 0
  /\ acked = {}

\* C14: whenever no handler is suspended (and this process has restored),
\* the periodic alarm exists if and only if the session is recording.
C14_AlarmIffRecording ==
  (tasks = EmptyBag /\ sessionState.restored)
    => (alarm <=> sessionState.isRecording)

\* C15: a flush has made at most retryAttempts POSTs; a POST leaves only
\* when the flush has saved its batch (the first) or when the answer to the
\* previous one is a failure (the next), one at a time; after a 2xx answer
\* the flush makes no further POST.
C15_AttemptsSequentialBounded ==
  [][\A u \in FlushTasks(tasks') :
       /\ u.attempt <= retryAttempts
       /\ \A t \in FlushTasks(tasks) :
            u.id = t.id =>
              /\ u.attempt \in {t.attempt, t.attempt + 1}
              /\ u.attempt = t.attempt + 1 =>
                   \/ t.pc = "saved" /\ u.pc = "fetch" /\ u.attempt = 1
                   \/ t.pc = "fetch" /\ u.pc = "fetch"
              /\ t.pc \in {"ok", "persist"} =>
                   u.attempt = t.attempt /\ u.pc \in {"ok", "persist"}]_vars

\* the sink acknowledged the last permitted attempt of a flush
C15_Witness ==
  \E t \in FlushTasks(tasks) : t.pc = "ok" /\ t.attempt = retryAttempts

TabOps == {"tabs.onUpdated", "tabs.onActivated"}

\* C16: a tab listener of the worker appends no event whose page hostname
\* equals, or is a subdomain of, a domain on the stored excludedDomains list.
C16_ExcludedNeverBuffered ==
  [][(out'.op \in TabOps /\ ids'.event > ids.event)
       => ~isExcludedDomain(stored.excludedDomains, out'.page.host)]_vars

AllowedSomewhere == UNION {EVENT_RULES[c] : c \in DOMAIN EVENT_RULES}
Appended == ids'.event > ids.event
LastEvent(buf) == buf[Len(buf)]

\* C17 as stated: every event that a page's content script or a tab
\* listener brings into the buffer is of a kind on an EVENT_RULES list.
C17_OnlyAllowedKindsBuffered ==
  [][(Appended /\ out'.page.host # <<>>)
       => LastEvent(sessionState'.eventBuffer).type \in AllowedSomewhere]_vars

\* C17: an event forwarded by a content script is of a kind on the allow-list
\* of its page's class and its page was not excluded when it was sent (the
\* step that counts the input; a message that waits for the restore is
\* checked when it is queued); the
\* events the worker makes itself pass no allow-list: navigation and
\* tab_switch of the tab listeners pass the worker's exclusion check only,
\* session_start and session_end pass no check.
C17_ChecksPerOrigin ==
  [][/\ Appended =>
          LET e == LastEvent(sessionState'.eventBuffer) IN
          CASE out'.op = "EVENT_CAPTURED" ->
                 /\ e.type = out'.data
                 /\ e.type \in AllowedEvents(out'.page.class)
                 /\ inputs' # inputs =>
                      ~isExcludedDomain(stored.excludedDomains, out'.page.host)
            [] out'.op \in TabOps ->
                 /\ e.type \in {"navigation", "tab_switch"}
                 /\ e.type \notin AllowedSomewhere \/ e.type = "navigation"
                 /\ ~isExcludedDomain(sessionState.excludedDomains,
                                      out'.page.host)
            [] OTHER -> e.type \in {"session_start", "session_end"}
     /\ \A t \in Pending("restore")' :
          (t \notin Pending("restore") /\ t.mtype = "EVENT_CAPTURED") =>
            /\ t.data \in AllowedEvents(t.page.class)
            /\ ~isExcludedDomain(stored.excludedDomains, t.page.host)]_vars

\* the buffer holds a tab_switch made by the worker next to an
\* ai_query_submitted forwarded by the content script of an AI page
C17_Witness ==
  /\ \E i \in 1..Len(sessionState.eventBuffer) :
       sessionState.eventBuffer[i].type = "tab_switch"
  /\ out.op = "EVENT_CAPTURED"
  /\ out.page.class = "ai"
  /\ LastEvent(sessionState.eventBuffer).type = "ai_query_submitted"

\* C18: a call of sendEvent on a page whose hostname is not excluded, with a
\* valid extension context, sends the event to the worker exactly when its
\* type is on the EVENT_RULES list of the page's class (general when the
\* detector found no platform), and sends nothing else; a class without a
\* list of its own is filtered by the general list.
C18_AllowListComplete ==
  [][out'.op = "sendEvent" =>
       LET type == out'.data
           rules == IF content.class = "ai" THEN EVENT_RULES.ai
                    ELSE IF content.class = "ecommerce"
                    THEN EVENT_RULES.ecommerce
                    ELSE EVENT_RULES.general
           excluded == \E d \in content.excludedDomains :
                          \/ content.host = d
                          \/ IsSubdomain(content.host, d)
       IN /\ (~excluded /\ content.valid) =>
               /\ type \in rules => sent' = <<EventData(type)>>
               /\ type \notin rules => sent' = <<>>
          /\ (excluded \/ ~content.valid) => sent' = <<>>
          /\ \A host \in Hosts, t \in ContentKinds \cup {"navigation"} :
               shouldCaptureEvent({}, [host |-> host, class |-> "social"], t)
                 <=> t \in EVENT_RULES.general]_vars

\* an AI page sent an event that only the ai list allows
C18_Witness ==
  /\ out.op = "sendEvent"
  /\ out.data = "ai_query_submitted"
  /\ content.class = "ai"
  /\ sent = <<EventData("ai_query_submitted")>>

C20_OncePerPageLoad ==
  \A m \in SeqToSet(scrollMilestones) : emitted.page[m] <= 1

\* C20: between one startCapturing and the next, each milestone is sent as a
\* scroll_milestone event at most once, whatever SPA navigations and changes
\* of settings occur, and only in a run of the scroll handler that observes
\* a percentage that has reached the milestone, which the script had not
\* marked as reached.
C20_OncePerCaptureSession ==
  [][\A m \in SeqToSet(scrollMilestones) :
       /\ emitted'.session[m] <= 1
       /\ emitted'.page[m] > emitted.page[m] =>
            /\ out'.op = "scroll"
            /\ content.isRecording
            /\ content'.scroll >= m
            /\ m \notin content.scrollMilestonesReached
            /\ m \in content'.scrollMilestonesReached
            /\ \E i \in 1..Len(sent') :
                 sent'[i] = [EventData("scroll_milestone")
                              EXCEPT !.milestone = m]]_vars

\* the second capture session on a page sent the milestone 50 again
C20_Witness ==
  /\ out.op = "scroll"
  /\ emitted.captures = 2
  /\ emitted.session[50] = 1
  /\ emitted.page[50] = 2
  /\ content.scroll = 100

\* C30: while one recording session lasts in one worker process,
\* totalSessionEvents never decreases, in memory or in storage, and rises by
\* exactly one in a step that appends a forwarded or tab event and not at all
\* otherwise; a restore never sets it below the persisted value.
C30_CounterMonotonic ==
  [][/\ (/\ sessionState.isRecording
         /\ sessionState'.isRecording
         /\ sessionState'.sessionId = sessionState.sessionId)
          => /\ stored'.totalSessionEvents >= stored.totalSessionEvents
             /\ sessionState'.totalSessionEvents =
                  sessionState.totalSessionEvents +
                    (IF Appended /\ out'.op \in TabOps \cup {"EVENT_CAPTURED"}
                     THEN 1 ELSE 0)
     /\ (/\ restoreCount' = restoreCount
         /\ Pending("restore")' # Pending("restore")
         /\ sessionState'.isRecording
         /\ sessionState'.sessionId = stored.currentSessionId)
          => sessionState'.totalSessionEvents >= stored.totalSessionEvents
    ]_vars

\* the class of a URL, the DOM-dependent check of google_ai decided by dom
ClassOf(config, u, dom) == detect(config, Href(u), u.host, dom).type

\* C21: isAIToEcommerce(document.referrer, location.href) is true exactly
\* when the referrer classifies as an AI platform by its URL and hostname
\* alone (the AI-overview check not applied to it) and the current URL
\* classifies as an e-commerce platform.
C21_ReferralAttribution ==
  [][returned'.fn = "isAIToEcommerce" =>
       (returned'.flag <=>
          /\ ClassOf(detector.config, detector.referrer, TRUE) = "ai"
          /\ ClassOf(detector.config, detector.location,
                     detector.aiOverview) = "ecommerce")]_vars

DefMatches(d, u) ==
  \/ \E domain \in d.domains : Includes(u.host, domain)
  \/ \E pattern \in d.urlPatterns : Includes(Href(u), pattern)
MatchingDefs(platforms, u) ==
  {i \in 1..Len(platforms) : DefMatches(platforms[i], u)}
First(S) == CHOOSE i \in S : \A j \in S : i <= j
GoogleWithoutOverview(u) ==
  /\ Href(u) # <<>> /\ u.host # <<>>
  /\ ~detector.aiOverview
  /\ \E i \in MatchingDefs(detector.config.ai_platforms, u) :
       detector.config.ai_platforms[i].platform = "google_ai"

\* C22: detect on a URL that matches the google_ai definition, in a document
\* without an element of the AI-overview selectors, returns no platform.
C22_GoogleWithoutOverviewIsNone ==
  [][(returned'.fn = "detect" /\ GoogleWithoutOverview(returned'.url))
       => returned'.platform = NoPlatform]_vars

\* what C23 states detect returns for u
FirstInOrder(u) ==
  LET ai == detector.config.ai_platforms
      ec == detector.config.ecommerce_platforms
      A == MatchingDefs(ai, u)
      E == MatchingDefs(ec, u)
  IN IF Href(u) = <<>> \/ u.host = <<>> THEN NoPlatform
     ELSE IF A # {} THEN [platform |-> ai[First(A)].platform, type |-> "ai"]
     ELSE IF E # {}
     THEN [platform |-> ec[First(E)].platform, type |-> "ecommerce"]
     ELSE NoPlatform

Sensitive(field) ==
  \/ field.type = "password"
  \/ field.autocomplete \in {"cc-number", "cc-csc"}

\* C24: an input event sent for a password or payment field, or for any
\* field that is not a search-query input, carries '[REDACTED]' as its value
\* and never the typed text.
C24_InputRedaction ==
  [][\A i \in 1..Len(sent') :
       (/\ sent'[i].type = "input"
        /\ \/ Sensitive(out'.event.field)
           \/ ~isSearchQueryInput(out'.event.field))
         => sent'[i].text = REDACTED]_vars

\* a submission trigger: Enter without Shift in the query input, or a click
\* on the submit button
Trigger(e) ==
  \/ e.event = "keydown" /\ e.target = "queryInput" /\ e.key = "Enter"
       /\ ~e.shiftKey
  \/ e.event = "click" /\ e.target = "submitButton"

\* t is s without the white space at its two ends
TrimmedOf(t, s) ==
  \E i \in 0..Len(s), j \in 0..Len(s) :
    /\ i + Len(t) + j = Len(s)
    /\ t = SubSeq(s, i + 1, i + Len(t))
    /\ \A k \in 1..i : s[k] \in WhiteSpace
    /\ \A k \in (Len(s) - j + 1)..Len(s) : s[k] \in WhiteSpace
    /\ t # <<>> => t[1] \notin WhiteSpace /\ t[Len(t)] \notin WhiteSpace

C27_GenericCaptureProceeds ==
  [][~content.platformDetector =>
       /\ content'.class = ""
       /\ content.isRecording =>
            /\ out'.op = "click" => \E i \in 1..Len(sent') :
                                      sent'[i].type = "click"
            /\ out'.op = "input" => \E i \in 1..Len(sent') :
                                      sent'[i].type = "input"
            /\ out'.op = "submit" => \E i \in 1..Len(sent') :
                                       sent'[i].type = "form_submit"
            /\ out'.op = "visibilitychange" =>
                 \E i \in 1..Len(sent') : sent'[i].type = "visibility_change"
            /\ out'.op = "beforeunload" =>
                 \E i \in 1..Len(sent') : sent'[i].type = "page_unload"
            /\ out'.op = "spaNavigation" =>
                 \E i \in 1..Len(sent') : sent'[i].type = "page_load"
            /\ out'.op = "scroll" =>
                 \A m \in SeqToSet(scrollMilestones) :
                   (content'.scroll >= m /\ emitted.session[m] = 0) =>
                     \E i \in 1..Len(sent') :
                       /\ sent'[i].type = "scroll_milestone"
                       /\ sent'[i].milestone = m]_vars

\* C28: when stopCapturing returns, no listener that addListener registered
\* is attached to its element any more.
C28_CompleteTeardown ==
  [][out'.op = "stopCapturing" => content'.attached = EmptyBag]_vars

\* the kinds of event the platform-specific handlers send
PlatformKinds ==
  {"ai_query_submitted", "ai_result_click", "product_click",
   "conversion_action"}

\* C29: after any starts of the capture, detection at DOM ready and
\* navigations, each platform-specific handler is attached at most once to
\* an element, and one user action sends at most one platform-specific
\* event.
C29_SingleHandlers ==
  [][/\ \A l \in BagToSet(content'.attached) :
          (content'.isRecording /\ l.handler \notin NamedHandlers
             /\ l.handler # "checkScrollMilestones")
            => CopiesIn(l, content'.attached) <= 1
     /\ Cardinality({i \in 1..Len(sent') : sent'[i].type \in PlatformKinds})
          <= 1]_vars

\* the types of the events of a batch, those the journey is about
JourneyKinds ==
  {"session_start", "ai_query_submitted", "conversion_action", "session_end"}
KindsOf(events) ==
  SelectSeq([k \in 1..Len(events) |-> events[k].type],
            LAMBDA type : type \in JourneyKinds)
Count(type, events) ==
  Cardinality({k \in 1..Len(events) : events[k].type = type})

InPushOrder(events) ==
  \A i, j \in 1..Len(events) : i < j => events[i].id < events[j].id

\* C31: the buffer holds its events in the order they were pushed by the
\* handlers, every batch lists its events in that order, and the step of a
\* successful flush takes exactly the events of its batch out of the buffer,
\* the others staying in their order.
C31_BufferOrder ==
  [][/\ InPushOrder(sessionState'.eventBuffer)
     /\ \A t \in FlushTasks(tasks') : InPushOrder(t.events)
     /\ \A t \in FlushAt("ok") :
          (\E u \in FlushTasks(tasks') : u.id = t.id /\ u.pc = "persist") =>
            /\ BufferIds(sessionState'.eventBuffer) =
                 BufferIds(sessionState.eventBuffer) \ BufferIds(t.events)
            /\ InPushOrder(sessionState'.eventBuffer)]_vars

\* a flush of two events succeeded and left in the buffer the event that
\* was pushed while it was in flight
C31_Witness ==
  \E t \in FlushAt("persist") :
    /\ Len(t.events) >= 2
    /\ BufferIds(t.events) \subseteq acked
    /\ sessionState.eventBuffer # <<>>
    /\ BufferIds(sessionState.eventBuffer) \cap BufferIds(t.events) = {}

\* the uncached scan: the element of the first selector in list order that
\* finds one, a throwing selector being skipped
Scan(document, arg) ==
  IF ~arg.isArray
  THEN ""
  ELSE LET hits == {i \in 1..Len(arg.selectors) :
                      LET q == querySelector(document, arg.selectors[i])
                      IN ~q.throws /\ q.el # ""}
       IN IF hits = {}
          THEN ""
          ELSE querySelector(
                 document,
                 arg.selectors[CHOOSE i \in hits : \A j \in hits : i <= j]).el

\* C32: whatever lookups and changes of the document came before, findElement
\* returns the element the uncached scan of the list returns on the document
\* as it is.
C32_CacheEquivalence ==
  returned.fn = "findElement" =>
    returned.el = Scan(detector.document, returned.arg)

\* the events that carry an AI-referral flag
ReferralKinds == {"product_click", "conversion_action"}

\* C33: a product_click or conversion_action is sent with a true flag
\* exactly when the page on which the recording session started, or a page
\* loaded during the session, was reached from an AI platform; what earlier
\* pages left in the tab before the session does not count.
C33_SessionScopedMarker ==
  [][\A k \in (Len(sent) + 1)..Len(sent') :
       sent'[k].type \in ReferralKinds =>
         sent'[k].flag = emitted'.fromAI]_vars

\* C34: the session_end of the first session of a run carries as totalEvents
\* the number of events placed in the buffer so far, session_start and itself
\* included (every event pushed until then belongs to that session, and the
\* ids count the pushes).
C34_TotalEvents ==
  [][\A k \in 1..Len(sessionState'.eventBuffer) :
       LET e == sessionState'.eventBuffer[k]
       IN (e.id > ids.event /\ e.type = "session_end" /\ e.sessionId = 1)
            => e.totalEvents = e.id]_vars

\* the events the worker holds: in the buffer or in a batch in flight
HeldEvents ==
  SeqToSet(sessionState.eventBuffer) \cup
    UNION {SeqToSet(t.events) : t \in FlushTasks(tasks)}

\* C35: no captured event (an event of a page or of a tab) is appended to
\* the buffer with the sessionId of a session_end that was appended before
\* it, whether that session_end is still buffered or in a batch in flight.
C35_SessionEndIsLast ==
  [][\A k \in 1..Len(sessionState'.eventBuffer) :
       LET e == sessionState'.eventBuffer[k]
       IN (e.id > ids.event /\ e.type \notin {"session_start", "session_end"})
            => ~\E f \in HeldEvents :
                  f.type = "session_end" /\ f.sessionId = e.sessionId]_vars

\* C36: when a flush builds its payload and sends it (the step from the
\* saved pending entry to the first POST), the sessionId and participantId
\* it reads from the session state are not null and are those of every event
\* of the batch; session_end, which has no participantId field, is compared
\* by its sessionId only.  Stated for the runs with one START_RECORDING.
C36_PayloadIdentity ==
  [][\A t \in FlushAt("saved") :
       (/\ ids.session = 1
        /\ \E u \in FlushTasks(tasks') : u.id = t.id /\ u.pc = "fetch") =>
         /\ sessionState.sessionId # 0
         /\ sessionState.participantId # NoPid
         /\ \A e \in SeqToSet(t.events) :
              /\ e.sessionId = sessionState.sessionId
              /\ e.type # "session_end" =>
                   e.participantId = sessionState.participantId]_vars

QueuedIds ==
  UNION {BufferIds(sessionState.uploadQueue[i].events) :
           i \in 1..Len(sessionState.uploadQueue)}

\* C38: in the earlier worker, every event of a payload that was put in
\* uploadQueue is eventually part of a payload the sink accepted.
C38_QueuedPayloadResent ==
  \A e \in 1..(MaxInputs + 1) : (e \in QueuedIds) ~> (e \in acked)

\* the keydown handlers attached to the query input
KeyDownHandlers ==
  CopiesIn([element |-> "queryInput", event |-> "keydown",
            handler |-> "handleKeyDown"], content.eventListeners)

\* C39: one call of setupAIPlatformTracking looks for the query input at
\* most maxAttempts + 1 times, has at most one retry pending, attaches the
\* keydown handler at most once and retries no more once it is attached, and
\* it comes to an end: no retry stays pending.
C39_BoundedRetry ==
  /\ [](/\ emitted.lookups <= maxAttempts + 1
        /\ BagCardinality(content.timers) <= 1
        /\ \A attempt \in BagToSet(content.timers) : attempt <= maxAttempts
        /\ KeyDownHandlers <= 1
        /\ KeyDownHandlers = 1 => content.timers = EmptyBag)
  /\ [][KeyDownHandlers = 1 => emitted.lookups' = emitted.lookups]_vars
  /\ (emitted.lookups > 0) ~> (content.timers = EmptyBag)

\* the input was found by the last retry
C39_Witness ==
  /\ emitted.lookups = maxAttempts + 1
  /\ KeyDownHandlers = 1
  /\ content.timers = EmptyBag

\* C40: two runs of the milestone check are never less than wait apart, and
\* while recording a scroll event is followed by a run of the check within
\* wait.
C40_ScrollThrottle ==
  /\ emitted.minGap >= wait
  /\ (content.isRecording /\ emitted.unchecked # 0)
       => content.now - emitted.unchecked <= wait

=============================================================================
